---- MODULE Spec2Model ----
(***************************************************************************)
(* make.py: the build engine of src/make.py as a state machine.            *)
(*                                                                         *)
(* One behaviour is: a rule set is loaded (add_rule), main() builds the    *)
(* goals (serial or parallel mode), the process ends; then one edit is     *)
(* made to the files or to the rule set and main() runs a second time,     *)
(* with or without -c.  Ctrl-C may interrupt a build.                      *)
(* Files carry a logical modification time: every write takes the value of *)
(* the clock `now`, which then advances.                                   *)
(***************************************************************************)
EXTENDS Naturals, Integers, Sequences, FiniteSets, Bags, TLC

\* ---------------------------------------------------------------- bounds
\* largest -j value tried in parallel mode
MaxJobs == 2
\* cap of priority_queue_counter (never reached by the unmodified engine)
MaxSeq == 6

\* -------------------------------------------------------- program values
\* priority of the sentinel entries pushed at shutdown
SentinelPriority == 1000000
\* the rule slot of a sentinel entry (None)
None == 0
\* d_file=None, stdout_filter=None
NoPath == "None"
\* the directory of the single rules.py of the model (ctx.cwd, os.getcwd())
Cwd == "/p"
LoaderFile == "/p/rules.py"

\* ------------------------------------------------------------ sequences
Range(s) == {s[i] : i \in DOMAIN s}

RECURSIVE SeqMin(_)
SeqMin(s) ==
    IF Len(s) = 1 THEN s[1]
    ELSE LET m == SeqMin(Tail(s)) IN IF s[1] < m THEN s[1] ELSE m

\* ----------------------------------------------------------------- paths
\* The model's relative path names, as a rules.py would write them.
RelNames == {"main.c", "header.h", "_out/main.o", "_out/main.d", "_out/hello",
             "s1", "s2", "_out/t1", "_out/t2", "_out/g",
             "_out/a", "_out/b", "_out/x", "_out/f", "rules.py",
             "lib", "_out/a.d", "_out/n"}

AbsolutePaths == {Cwd \o "/" \o n : n \in RelNames}

\* joinpath (posix): a path that starts with '/' is kept, any other is put
\* under cwd.  The paths that start with '/' are the AbsolutePaths.
joinpath(cwd, path) == IF path \in AbsolutePaths THEN path ELSE cwd \o "/" \o path

\* normpath: os.path.normpath on a posix system.  No path of the model has a
\* '.', '..' or empty segment, the only thing normpath rewrites.
normpath(path) == path

NormAll(cwd, s) == [i \in DOMAIN s |-> normpath(joinpath(cwd, s[i]))]

\* the files below '%s/_out' % cwd (main, line 413)
OutTree(cwd) ==
    {cwd \o "/" \o n : n \in {"_out/main.o", "_out/main.d", "_out/hello", "_out/t1",
                              "_out/t2", "_out/g", "_out/a", "_out/b", "_out/x",
                              "_out/f", "_out/a.d", "_out/n"}}

\* ----------------------------------------------------------------- rules
\* Rule.__init__
\* (oo: order_only_deps, msvc: msvc_show_includes, filter: stdout_filter)
Rule(targets, deps, cwd, cmds, d_file, oo, msvc, filter, latency) ==
    [targets |-> targets, deps |-> deps, cwd |-> cwd, cmds |-> cmds,
     d_file |-> d_file, order_only_deps |-> oo, msvc_show_includes |-> msvc,
     stdout_filter |-> filter, latency |-> latency, priority |-> 0]

\* BuildContext.add_rule: targets, d_file and order_only_deps are made
\* canonical, deps are stored as written.
add_rule(targets, deps, cmds, d_file, oo, msvc, filter, latency) ==
    Rule(NormAll(Cwd, targets), deps, Cwd, cmds,
         IF d_file = NoPath THEN NoPath ELSE normpath(joinpath(Cwd, d_file)),
         NormAll(Cwd, oo), msvc, filter, latency)

\* A mutant of Rule.signature: order_only_deps and stdout_filter hashed too.
SignatureWithAll(rule) ==
    <<rule.targets, rule.deps, rule.cwd, rule.cmds, rule.d_file,
      rule.msvc_show_includes, rule.order_only_deps, rule.stdout_filter>>

\* Rule.signature: the SHA-1 of the pickled tuple, taken as injective: the
\* tuple itself.
signature(rule) ==
    <<rule.targets, rule.deps, rule.cwd, rule.cmds, rule.d_file,
      rule.msvc_show_includes>>

\* ------------------------------------------------- commands (environment)
\* What the programs named in cmds do when spawned in Cwd:
\*   cc, cl   write the rule's targets; cc also writes the d_file (gcc -MD),
\*            cl reports the included files on stdout (cl /showIncludes)
\*   ld, touch write the rule's targets
\*   true     exits 0 and writes nothing
\*   false    exits 1 and writes nothing
\*   partial  writes the rule's targets and exits 1
\*   nosuch   is no program: Popen raises, the code is 1 (lines 124-127)
CmdWritesTargets(cmd) == cmd \in {"cc", "cl", "ld", "touch", "partial"}
CmdExitCode(cmd) == IF cmd \in {"false", "partial", "nosuch"} THEN 1 ELSE 0
\* the files a compile of main.c reads, as gcc -MD lists them
CcDeps == <<"main.c", "header.h">>
\* the 'Note: including file:' paths cl prints
ClIncludes == {"/p/header.h", "c:/program files/y.h"}

\* -------------------------------------------------------------- loaders
\* Each loader is a rules.py: the add_rule calls it makes, the goals given
\* on the command line, and the source files on disk.
Hello(msvc) ==
    [rules |-> <<
        add_rule(<<"_out/main.o">>, <<"main.c">>, <<IF msvc THEN "cl" ELSE "cc">>,
                 "_out/main.d", <<>>, msvc, NoPath, 1),
        add_rule(<<"_out/hello">>, <<"_out/main.o">>, <<"ld">>,
                 NoPath, <<>>, FALSE, NoPath, 1) >>,
     goals |-> <<"_out/hello">>,
     sources |-> {"/p/main.c", "/p/header.h"}]

TwoTargets ==
    [rules |-> <<
        add_rule(<<"_out/t1", "_out/t2">>, <<"s1">>, <<"touch">>,
                 NoPath, <<>>, FALSE, NoPath, 1),
        add_rule(<<"_out/g">>, <<"_out/t1", "_out/t2", "s2">>, <<"touch">>,
                 NoPath, <<>>, FALSE, NoPath, 1) >>,
     goals |-> <<"_out/g">>,
     sources |-> {"/p/s1", "/p/s2"}]

OrderOnly ==
    [rules |-> <<
        add_rule(<<"_out/b">>, <<"s1">>, <<"touch">>,
                 NoPath, <<>>, FALSE, NoPath, 1),
        add_rule(<<"_out/a">>, <<"s2">>, <<"touch">>,
                 NoPath, <<"_out/b">>, FALSE, NoPath, 1) >>,
     goals |-> <<"_out/a">>,
     sources |-> {"/p/s1", "/p/s2"}]

\* spec scenario F: goal <- A <- X and goal <- B, latency(X) = 10
CriticalPath(bFirst) ==
    [rules |-> <<
        add_rule(<<"_out/x">>, <<"s1">>, <<"touch">>,
                 NoPath, <<>>, FALSE, NoPath, 10),
        add_rule(<<"_out/a">>, <<"_out/x">>, <<"touch">>,
                 NoPath, <<>>, FALSE, NoPath, 1),
        add_rule(<<"_out/b">>, <<"s1">>, <<"touch">>,
                 NoPath, <<>>, FALSE, NoPath, 1),
        add_rule(<<"_out/g">>,
                 IF bFirst THEN <<"_out/b", "_out/a">> ELSE <<"_out/a", "_out/b">>,
                 <<"touch">>, NoPath, <<>>, FALSE, NoPath, 1) >>,
     goals |-> <<"_out/g">>,
     sources |-> {"/p/s1"}]

\* spec scenario E next to two independent rules
Failing ==
    [rules |-> <<
        add_rule(<<"_out/f">>, <<"s1">>, <<"touch", "false">>,
                 NoPath, <<>>, FALSE, NoPath, 1),
        add_rule(<<"_out/a">>, <<"s1">>, <<"touch">>,
                 NoPath, <<>>, FALSE, NoPath, 1),
        add_rule(<<"_out/b">>, <<"s2">>, <<"touch">>,
                 NoPath, <<>>, FALSE, NoPath, 1) >>,
     goals |-> <<"_out/f", "_out/a", "_out/b">>,
     sources |-> {"/p/s1", "/p/s2"}]

\* a rule whose command exits 0 without writing its target; the goal is
\* that target, or a target that needs it
Phony(goal) ==
    [rules |-> <<
        add_rule(<<"_out/b">>, <<"s1">>, <<"true">>,
                 NoPath, <<>>, FALSE, NoPath, 1),
        add_rule(<<"_out/a">>, <<"_out/b">>, <<"touch">>,
                 NoPath, <<>>, FALSE, NoPath, 1) >>,
     goals |-> <<goal>>,
     sources |-> {"/p/s1"}]

\* a target that is not under _out, and a rule that needs it
Outside ==
    [rules |-> <<
        add_rule(<<"lib">>, <<"s1">>, <<"touch">>,
                 NoPath, <<>>, FALSE, NoPath, 1),
        add_rule(<<"_out/a">>, <<"lib">>, <<"touch">>,
                 NoPath, <<>>, FALSE, NoPath, 1) >>,
     goals |-> <<"_out/a">>,
     sources |-> {"/p/s1"}]

\* a rule with a declared dep that no rule builds and that is not on disk
NoSource ==
    [rules |-> <<
        add_rule(<<"_out/a">>, <<"s1", "s2">>, <<"touch">>,
                 NoPath, <<>>, FALSE, NoPath, 1) >>,
     goals |-> <<"_out/a">>,
     sources |-> {"/p/s1"}]

\* a goal no rule builds
UnknownGoal ==
    [rules |-> <<
        add_rule(<<"_out/a">>, <<"s1">>, <<"touch">>,
                 NoPath, <<>>, FALSE, NoPath, 1) >>,
     goals |-> <<"_out/a", "_out/n">>,
     sources |-> {"/p/s1"}]

\* _out/b needs _out/a, and _out/a needs _out/b: as a declared dep, or as
\* a dep listed in the d_file an earlier build left on disk
Cycle(declared) ==
    [rules |-> <<
        add_rule(<<"_out/a">>, IF declared THEN <<"_out/b">> ELSE <<"s1">>, <<"touch">>,
                 IF declared THEN NoPath ELSE "_out/a.d", <<>>, FALSE, NoPath, 1),
        add_rule(<<"_out/b">>, <<"_out/a">>, <<"touch">>,
                 NoPath, <<>>, FALSE, NoPath, 1) >>,
     goals |-> <<"_out/b">>,
     sources |-> IF declared THEN {"/p/s1"} ELSE {"/p/s1", "/p/_out/a.d"}]

\* the second command of a rule is no program
SpawnFails ==
    [rules |-> <<
        add_rule(<<"_out/a">>, <<"s1">>, <<"touch", "nosuch", "touch">>,
                 NoPath, <<>>, FALSE, NoPath, 1) >>,
     goals |-> <<"_out/a">>,
     sources |-> {"/p/s1"}]

\* an include-scan rule without a d_file, its command succeeding (cl) or
\* leaving a target behind and failing (partial)
ScanWithoutDFile(cmd) ==
    [rules |-> <<
        add_rule(<<"_out/a">>, <<"s1">>, <<cmd>>,
                 NoPath, <<>>, TRUE, NoPath, 1) >>,
     goals |-> <<"_out/a">>,
     sources |-> {"/p/s1"}]

\* a rule with an order-only dep that no rule builds and that is not on disk
NoOrderOnlySource ==
    [rules |-> <<
        add_rule(<<"_out/a">>, <<"s1">>, <<"touch">>,
                 NoPath, <<"s2">>, FALSE, NoPath, 1) >>,
     goals |-> <<"_out/a">>,
     sources |-> {"/p/s1"}]

\* a rule that is to be rebuilt when the rules.py itself changes
OnLoader ==
    [rules |-> <<
        add_rule(<<"_out/a">>, <<"rules.py">>, <<"touch">>,
                 NoPath, <<>>, FALSE, NoPath, 1) >>,
     goals |-> <<"_out/a">>,
     sources |-> {}]

\* a rules.py whose goal _out/a has a d_file, left by an earlier build, that
\* lists _out/b, the target of a rule no rule declares as a dep
Discovered ==
    [rules |-> <<
        add_rule(<<"_out/a">>, <<"s1">>, <<"touch">>,
                 "_out/a.d", <<>>, FALSE, NoPath, 1),
        add_rule(<<"_out/b">>, <<"s1">>, <<"touch">>,
                 NoPath, <<>>, FALSE, NoPath, 1) >>,
     goals |-> <<"_out/a">>,
     sources |-> {"/p/s1", "/p/_out/a.d"}]

Loaders == {Hello(FALSE), Hello(TRUE), TwoTargets, OrderOnly,
            CriticalPath(FALSE), CriticalPath(TRUE), Failing,
            Phony("_out/a"), Phony("_out/b"), Outside, NoSource, UnknownGoal,
            Cycle(TRUE), Cycle(FALSE), SpawnFails, ScanWithoutDFile("cl"),
            ScanWithoutDFile("partial"), NoOrderOnlySource, OnLoader, Discovered}

\* the tokens of the d_files that are on disk before the first invocation
InitialSidecar(p) == IF p = "/p/_out/a.d" THEN <<"_out/a:", "_out/b">> ELSE <<>>

\* ------------------------------------------------------------------ state
VARIABLES
    parallel,     \* options.parallel
    jobs,         \* options.jobs
    args,         \* the goals, canonical (main, line 391)
    clean,        \* options.clean
    rule_objs,    \* the Rule objects, in registration order
    mtime,        \* disk: st_mtime of each path, -1 when it does not exist
    sidecar,      \* disk: the whitespace-separated tokens of each d_file
    db_file,      \* disk: the records of /p/_out/make.db
    now,          \* the clock of the file system
    make_db,      \* make_db[Cwd]
    visited, enqueued, completed, building,
    task_queue,   \* the entries in the PriorityQueue
    priority_queue_counter,
    any_errors,
    pc,           \* where main() is
    stack,        \* the active build() calls, innermost last
    gi,           \* index in args of the next goal of this pass
    inline,       \* serial mode: the run_cmd in progress inside build()
    threads,      \* the bag of BuilderThread positions
    raised,       \* the exception propagating out of main()'s try block, or ""
    status,       \* exit status of the process, -1 while it runs
    run,          \* 1: first invocation of main(), 2: second
    edit,         \* what was changed between the two invocations
    prev,         \* disk and rules as the first invocation left them
    mode,         \* the disk this invocation started from, and what the same
                  \* invocation did in serial mode when it is repeated in parallel
    ran,          \* per rule: run_cmd calls started in this invocation
    failed,       \* rules with a command that exited nonzero, this invocation
    missing,      \* rules build() found with a nonexistent dep, this invocation
    log,          \* per rule: the commands run_cmd spawned, with their exit codes
    normpath_cache, \* the paths normpath() has been called with
    verbose,      \* options.verbose: -v was given
    console,      \* stdout is an interactive console: usable_columns is not None
    banners,      \* per rule: what run_cmd wrote to stdout for it, one entry per write
    dfile,        \* one d_file on its own: what is written to it and read back
    parser,       \* the ParseContext of gnu_make_parse.py, reading a makefile
    io            \* io_lock on its own: who holds it, and where each thread is

disk == <<mtime, sidecar, now>>
sets == <<visited, enqueued, completed, building>>
queue == <<task_queue, priority_queue_counter>>
options == <<parallel, jobs, args, clean, verbose, console>>
history == <<run, edit, prev, mode>>
\* what the build engine never touches
aside == <<dfile, parser, io>>
\* the variables of the build engine
engine == <<options, rule_objs, disk, db_file, make_db, sets, queue, any_errors,
            pc, stack, gi, inline, threads, raised, status, history, ran, failed,
            missing, log, normpath_cache, banners>>
vars == <<engine, aside>>

\* ------------------------------------------------------------ rule lookup
TargetsOf(objs) == UNION {Range(objs[i].targets) : i \in DOMAIN objs}

\* the dict `rules` a list of registered Rule objects gives: target -> Rule
RulesOf(objs) ==
    [t \in TargetsOf(objs) |-> CHOOSE i \in DOMAIN objs : t \in Range(objs[i].targets)]

rules == RulesOf(rule_objs)

RuleIds == DOMAIN rule_objs

\* get_timestamp_if_exists
get_timestamp_if_exists(path) == mtime[path]

\* os.path.exists
Exists(path) == mtime[path] >= 0

\* ------------------------------------------------------ latency propagation
RECURSIVE propagate_latencies(_, _, _)
\* A mutant of propagate_latencies: a rule's priority is set on the first
\* visit and never raised.
RECURSIVE PropagateOnce(_, _, _)
RECURSIVE PropagateOnceChain(_, _, _)
PropagateOnceChain(objs, chain, latency) ==
    IF chain = <<>> THEN objs
    ELSE PropagateOnceChain(PropagateOnce(objs, Head(chain), latency), Tail(chain), latency)

PropagateOnce(objs, target, latency) ==
    IF target \notin UNION {{objs[i].targets[k] : k \in DOMAIN objs[i].targets} : i \in DOMAIN objs}
    THEN objs
    ELSE LET id == CHOOSE i \in DOMAIN objs : \E k \in DOMAIN objs[i].targets : objs[i].targets[k] = target
             lat == latency + objs[id].latency
         IN IF objs[id].priority # 0 THEN objs
            ELSE PropagateOnceChain([objs EXCEPT ![id].priority = lat],
                                    NormAll(objs[id].cwd, objs[id].deps)
                                        \o objs[id].order_only_deps,
                                    lat)

RECURSIVE PropagateChain(_, _, _)

\* the loop of lines 372-373 over the deps that are left
PropagateChain(objs, chain, latency) ==
    IF chain = <<>> THEN objs
    ELSE PropagateChain(propagate_latencies(objs, Head(chain), latency),
                        Tail(chain), latency)

\* propagate_latencies(target, latency), as a function of the Rule objects
propagate_latencies(objs, target, latency) ==
    IF target \notin TargetsOf(objs) THEN objs
    ELSE LET id == RulesOf(objs)[target]
             lat == latency + objs[id].latency
         IN IF lat <= objs[id].priority THEN objs
            ELSE PropagateChain([objs EXCEPT ![id].priority = lat],
                                NormAll(objs[id].cwd, objs[id].deps)
                                    \o objs[id].order_only_deps,
                                lat)

\* main, lines 404-408, for goals that are all registered
RECURSIVE PropagateGoals(_, _)
PropagateGoals(objs, goals) ==
    IF goals = <<>> THEN objs
    ELSE PropagateGoals(propagate_latencies(objs, Head(goals), 0), Tail(goals))

\* A mutant of Conflict: add_rule does not look for the target in `rules`.
ConflictNever(objs) == FALSE

\* add_rule, lines 225-228: a target of the i-th add_rule call is already in
\* `rules`, put there by an earlier call or by the same call
Conflict(objs) ==
    \E i \in DOMAIN objs :
        \/ \E j \in DOMAIN objs :
              j < i /\ Range(objs[i].targets) \cap Range(objs[j].targets) # {}
        \/ \E a, b \in DOMAIN objs[i].targets :
              a < b /\ objs[i].targets[a] = objs[i].targets[b]

\* lines 371-373: the deps propagate_latencies recurses into
StaticDeps(objs, id) ==
    Range(NormAll(objs[id].cwd, objs[id].deps)) \cup Range(objs[id].order_only_deps)

RECURSIVE Reach(_, _)
Reach(objs, S) ==
    LET more == S \cup UNION {StaticDeps(objs, RulesOf(objs)[t]) :
                                 t \in S \cap TargetsOf(objs)}
    IN IF more = S THEN S ELSE Reach(objs, more)

\* propagate_latencies, lines 365-373, on a cycle of declared and order-only
\* deps: every latency of the model is positive, so each turn around the
\* cycle passes the test of line 365 with a larger value and the recursion
\* ends when python raises RecursionError
Diverges(objs, goals) ==
    \E t \in Reach(objs, Range(goals)) \cap TargetsOf(objs) :
        t \in Reach(objs, StaticDeps(objs, RulesOf(objs)[t]))

\* ------------------------------------------------------------------- Init
NoRun == [rule |-> None, ci |-> 0]

\* nothing known of a serial run of this invocation
NoSerial == [ran |-> <<>>, exists |-> {}, db_file |-> <<>>, status |-> -1]

Fresh(L) == [i \in DOMAIN L.rules |-> L.rules[i]]

\* the process at the top of main(), with the rules of loader L to read
Started(L, par, j) ==
    /\ parallel = par
    /\ jobs = j
    /\ args = NormAll(Cwd, L.goals)
    /\ clean = FALSE
    /\ rule_objs = Fresh(L)
    /\ mtime = [p \in AbsolutePaths |->
                    IF p \in L.sources \/ p = LoaderFile THEN 1 ELSE -1]
    /\ sidecar = [p \in AbsolutePaths |->
                      IF p \in L.sources THEN InitialSidecar(p) ELSE <<>>]
    /\ db_file = <<>>
    /\ now = 2
    /\ make_db = <<>>
    /\ visited = {} /\ enqueued = {} /\ completed = {} /\ building = {}
    /\ task_queue = <<>>
    /\ priority_queue_counter = 0
    /\ any_errors = FALSE
    /\ pc = "start"
    /\ stack = <<>>
    /\ gi = 1
    /\ inline = NoRun
    /\ threads = EmptyBag
    /\ raised = ""
    /\ status = -1
    /\ run = 1
    /\ edit = [kind |-> "first"]
    /\ prev = [db_file |-> <<>>, rule_objs |-> <<>>, mtime |-> <<>>]
    /\ mode = [start |-> [mtime |-> mtime, sidecar |-> sidecar,
                          db_file |-> db_file, now |-> now],
               serial |-> NoSerial, replayed |-> FALSE]
    /\ ran = [i \in DOMAIN L.rules |-> 0]
    /\ failed = {}
    /\ missing = {}
    /\ log = [i \in DOMAIN L.rules |-> <<>>]
    /\ normpath_cache = {}
    /\ banners = [i \in DOMAIN L.rules |-> <<>>]

\* no d_file is being written and no makefile is being parsed
\* no -v, and stdout is redirected: get_usable_columns() returns None
Quiet == verbose = FALSE /\ console = FALSE

NoDFile == [stage |-> "none"]
NoParser == [stage |-> "none"]
NoIo == [stage |-> "none"]

Init ==
    \E L \in Loaders, par \in BOOLEAN, j \in 1..MaxJobs :
        /\ par \/ j = 1
        /\ Started(L, par, j)
        /\ Quiet
        /\ dfile = NoDFile
        /\ io = NoIo
        /\ parser = NoParser

\* ------------------------------------------------------------ main: start
Restrict(f, S) == [x \in S |-> f[x]]

\* lines 418-423: the targets of a loaded database that no rule builds
Stale(db) == {t \in DOMAIN db : t \notin DOMAIN rules}

\* a BuilderThread at the top of its loop
Idle == [pc |-> "check", rule |-> None, ci |-> 0]
Exited == [pc |-> "exited", rule |-> None, ci |-> 0]

\* A mutant of Cleaned: -c leaves the loaded database as it is.
CleanedNot(db) == db

\* main, lines 412-417: with -c the _out tree is removed and the loaded
\* database is cleared, before the loop of lines 418-423 looks for stale
\* targets in it
Cleaned(db) == IF clean THEN <<>> ELSE db

\* lines 413-416 and 418-422: the files main() removes before the build
Removed(db) == Stale(Cleaned(db)) \cup (IF clean THEN OutTree(Cwd) ELSE {})

\* A mutant of NoRuleFor: the goals are not looked up in `rules`.
NoRuleForNever(goals) == FALSE

\* main, lines 404-407: a goal that is not in `rules`
NoRuleFor(goals) == \E i \in DOMAIN goals : goals[i] \notin DOMAIN rules

\* main, lines 376-432: the rules.py is parsed (parse_rules_py puts its path
\* in visited, loads make.db and calls rules(ctx), where an add_rule for a
\* target that has a rule exits), each goal must have a rule, latencies are
\* propagated (RecursionError ends the process as exit(1) does), the _out
\* tree is cleaned with -c (make.db lies in it), stale targets are deleted,
\* the builder threads are started.
\* the keys normpath() is called with, and so adds to normpath_cache:
\* joinpath(cwd, x) for each x
Joined(cwd, s) == {joinpath(cwd, s[i]) : i \in DOMAIN s}

\* by main, lines 391 and 403, and by add_rule, lines 211-220
Registered(objs, goals) ==
    Range(goals) \cup {LoaderFile}
        \cup UNION {Range(objs[i].targets) \cup Range(objs[i].order_only_deps)
                        \cup (IF objs[i].d_file = NoPath THEN {} ELSE {objs[i].d_file}) :
                    i \in DOMAIN objs}

\* by propagate_latencies, line 371, for the rules it reaches from the goals
Propagated(objs, goals) ==
    UNION {Joined(objs[i].cwd, objs[i].deps) :
              i \in {j \in DOMAIN objs : Range(objs[j].targets) \cap Reach(objs, Range(goals)) # {}}}

MainStart ==
    /\ pc = "start"
    /\ IF \/ Conflict(rule_objs)
          \/ NoRuleFor(args)
          \/ Diverges(rule_objs, args)
       THEN /\ pc' = "done"
            /\ status' = 1
            /\ visited' = visited \cup {LoaderFile}
            /\ make_db' = db_file
            /\ normpath_cache' = normpath_cache \cup Registered(rule_objs, args)
            /\ UNCHANGED <<rule_objs, disk, db_file, threads>>
       ELSE /\ pc' = IF parallel THEN "pass" ELSE "walk"
            /\ status' = status
            /\ visited' = visited \cup {LoaderFile}
            /\ rule_objs' = PropagateGoals(rule_objs, args)
            /\ normpath_cache' = normpath_cache \cup Registered(rule_objs, args)
                                     \cup Propagated(rule_objs, args)
            /\ make_db' = Restrict(Cleaned(db_file),
                                   DOMAIN Cleaned(db_file) \ Stale(Cleaned(db_file)))
            /\ mtime' = [p \in AbsolutePaths |->
                            IF p \in Removed(db_file) THEN -1 ELSE mtime[p]]
            /\ db_file' = Cleaned(db_file)
            /\ UNCHANGED <<sidecar, now>>
            /\ threads' = IF parallel THEN [x \in {Idle} |-> jobs] ELSE EmptyBag
    /\ UNCHANGED <<options, enqueued, completed, building, queue,
                   any_errors, stack, gi, inline, raised, history, aside, ran, failed, missing, log,
                   banners>>

\* ------------------------------------------------------------------- walk
\* python's s[1:]
Rest(s) == IF s = <<>> THEN <<>> ELSE Tail(s)

\* build, lines 244-254: the deps a rule's d_file lists, when it exists
d_file_deps_of(rule) ==
    IF rule.d_file # NoPath /\ Exists(rule.d_file)
    THEN NormAll(rule.cwd, Rest(sidecar[rule.d_file]))
    ELSE <<>>

\* itertools.chain(deps, d_file_deps, rule.order_only_deps) of a build() call
Chain(frame) ==
    frame.deps \o frame.d_file_deps \o rule_objs[rules[frame.target]].order_only_deps

\* A mutant of InFlight: the walk does not look at enqueued.
InFlightNever(target) == FALSE

\* build, line 239
InFlight(target) == target \in enqueued

\* build, lines 231-254, called with `target` while the calls in stk are
\* active: it returns at once, or goes on to its dependency loop (a frame).
BuildCall(target, stk) ==
    IF target \in visited \/ target \in completed
    THEN /\ visited' = visited
         /\ completed' = completed
         /\ stack' = stk
         /\ normpath_cache' = normpath_cache
    ELSE IF target \notin DOMAIN rules
    THEN /\ visited' = visited \cup {target}
         /\ completed' = completed \cup {target}
         /\ stack' = stk
         /\ normpath_cache' = normpath_cache
    ELSE LET rule == rule_objs[rules[target]]
         IN /\ visited' = visited \cup Range(rule.targets)
            /\ completed' = completed
            /\ normpath_cache' =
                   IF InFlight(target) THEN normpath_cache
                   ELSE normpath_cache \cup Joined(rule.cwd, rule.deps)
                            \cup (IF rule.d_file # NoPath /\ Exists(rule.d_file)
                                  THEN Joined(rule.cwd, Rest(sidecar[rule.d_file]))
                                  ELSE {})
            /\ stack' = IF InFlight(target) THEN stk
                        ELSE Append(stk, [target |-> target,
                                          deps |-> NormAll(rule.cwd, rule.deps),
                                          d_file_deps |-> d_file_deps_of(rule),
                                          k |-> 1])

Top == stack[Len(stack)]
Pop(stk) == SubSeq(stk, 1, Len(stk) - 1)

\* main, line 439
Pass ==
    /\ pc = "pass"
    /\ visited' = {}
    /\ gi' = 1
    /\ pc' = "walk"
    /\ UNCHANGED <<options, rule_objs, disk, db_file, make_db, enqueued, completed,
                   building, queue, any_errors, stack, inline, threads, raised,
                   status, history, aside, ran, failed, missing, log, normpath_cache,
                   banners>>

\* main, lines 440-441 and 465-466: build(target) for the next goal
WalkGoal ==
    /\ pc = "walk" /\ stack = <<>> /\ gi <= Len(args)
    /\ BuildCall(args[gi], <<>>)
    /\ gi' = gi + 1
    /\ UNCHANGED <<options, rule_objs, disk, db_file, make_db, enqueued, building,
                   queue, any_errors, pc, inline, threads, raised, status, history, aside,
                   ran, failed, missing, log,
                   banners>>

\* build, lines 255-256: build(dep) for the next dep of the innermost call
WalkDep ==
    /\ pc = "walk" /\ stack # <<>> /\ inline = NoRun
    /\ Top.k <= Len(Chain(Top))
    /\ BuildCall(Chain(Top)[Top.k], [stack EXCEPT ![Len(stack)].k = Top.k + 1])
    /\ UNCHANGED <<options, rule_objs, disk, db_file, make_db, enqueued, building,
                   queue, any_errors, pc, gi, inline, threads, raised, status,
                   history, aside, ran, failed, missing, log,
                   banners>>

\* ---------------------------------------------------------------- run_cmd
\* the paths of the model in the order sorted() gives them
PathOrder == <<"/p/_out/a", "/p/_out/a.d", "/p/_out/b", "/p/_out/f", "/p/_out/g",
               "/p/_out/hello", "/p/_out/main.d", "/p/_out/main.o", "/p/_out/n",
               "/p/_out/t1", "/p/_out/t2", "/p/_out/x", "/p/header.h", "/p/lib",
               "/p/main.c", "/p/rules.py", "/p/s1", "/p/s2">>

\* sorted(deps), deps a set of paths
Sorted(S) == SelectSeq(PathOrder, LAMBDA p : p \in S)

\* dep.startswith('c:/program files')
SystemHeader(dep) == dep \in {"c:/program files/y.h"}

\* run_cmd, lines 107-111: the targets are deleted from disk
PreDelete(rule, mt) ==
    [p \in AbsolutePaths |-> IF p \in Range(rule.targets) THEN -1 ELSE mt[p]]

\* A mutant of PreDeleteDb: the entries of the targets are left in place.
PreDeleteDbNot(rule, db) == db

\* run_cmd, lines 110-111: and from the database of the rule's cwd
PreDeleteDb(rule, db) == Restrict(db, DOMAIN db \ Range(rule.targets))

\* A mutant of RemoveOnFailure: the targets are left on disk.
RemoveOnFailureNot(rule, mt) == mt

\* run_cmd, lines 173-174
RemoveOnFailure(rule, mt) ==
    [p \in AbsolutePaths |-> IF p \in Range(rule.targets) THEN -1 ELSE mt[p]]

\* A mutant of Commit: only the first target of the rule gets its entry.
CommitFirst(rule, db) ==
    [t \in DOMAIN db \cup {rule.targets[1]} |->
        IF t = rule.targets[1] THEN signature(rule) ELSE db[t]]

\* run_cmd, lines 177-178
Commit(rule, db) ==
    [t \in DOMAIN db \cup Range(rule.targets) |->
        IF t \in Range(rule.targets) THEN signature(rule) ELSE db[t]]

\* run_cmd, lines 118-175, for one cmd of the rule: the command runs, then
\* the include scan writes the d_file, then a nonzero code deletes the
\* targets.  outcome: "ok", "fail" (exit(1) after any_errors is set) or
\* "crash" (open(None) or the assert of line 145 raises).
CmdEffect(rule, cmd) ==
    LET tg == Range(rule.targets)
        wrote == CmdWritesTargets(cmd)
        gccd == cmd = "cc" /\ rule.d_file # NoPath
        mt1 == [p \in AbsolutePaths |->
                   IF (wrote /\ p \in tg) \/ (gccd /\ p = rule.d_file)
                   THEN now ELSE mtime[p]]
        sc1 == IF gccd
               THEN [sidecar EXCEPT ![rule.d_file] = <<"_out/main.o:">> \o CcDeps]
               ELSE sidecar
        clk1 == IF wrote THEN now + 1 ELSE now
        code == CmdExitCode(cmd)
        msvc == rule.msvc_show_includes
        opened == msvc /\ rule.d_file # NoPath
        written == opened /\ Len(rule.targets) = 1
        includes == IF cmd = "cl" THEN ClIncludes ELSE {}
        deps == {normpath(d) : d \in {i \in includes : ~SystemHeader(normpath(i))}}
        mt2 == IF opened THEN [mt1 EXCEPT ![rule.d_file] = clk1] ELSE mt1
        sc2 == IF written
               THEN [sc1 EXCEPT ![rule.d_file] = <<rule.targets[1] \o ":">> \o Sorted(deps)]
               ELSE IF opened THEN [sc1 EXCEPT ![rule.d_file] = <<>>]
               ELSE sc1
        clk2 == IF opened THEN clk1 + 1 ELSE clk1
        crash == msvc /\ ~written
    IN [mtime |-> IF ~crash /\ code # 0 THEN RemoveOnFailure(rule, mt2) ELSE mt2,
        sidecar |-> sc2,
        now |-> clk2,
        normalised |-> IF msvc THEN includes ELSE {},
        outcome |-> IF crash THEN "crash" ELSE IF code # 0 THEN "fail" ELSE "ok"]

\* main, line 398
progress_line == console /\ ~verbose /\ parallel

\* what a command prints, as lines: the compiler of a `cl` rule names its
\* source file and every file it includes, `cc` prints a warning, a command
\* that cannot be spawned gives the text of the exception (line 126)
CmdOut(cmd) ==
    IF cmd = "cl"
    THEN <<[kind |-> "text"]>> \o [i \in 1..Cardinality(ClIncludes) |-> [kind |-> "note"]]
    ELSE IF cmd = "cc" THEN <<[kind |-> "warning"]>>
    ELSE IF cmd = "nosuch" THEN <<[kind |-> "text"]>>
    ELSE <<>>

\* re.match of a stdout_filter with a line (line 160)
Matches(filter, line) == filter = "^warning" /\ line.kind = "warning"

IsNote(line) == line.kind = "note"
NotNote(line) == ~IsNote(line)

\* run_cmd, lines 131-160: the output with the include notes, or the lines
\* the stdout_filter matches, taken out
Filtered(rule, cmd) ==
    IF rule.msvc_show_includes
    THEN LET new_out == SelectSeq(CmdOut(cmd), NotNote)
         IN IF Len(new_out) = 1 THEN <<>> ELSE new_out
    ELSE IF rule.stdout_filter # "None"
    THEN LET Kept(line) == ~Matches(rule.stdout_filter, line)
         IN SelectSeq(CmdOut(cmd), Kept)
    ELSE CmdOut(cmd)

\* run_cmd, lines 162-167: the command line goes first with -v or a nonzero
\* code
Shown(rule, cmd) ==
    IF verbose \/ CmdExitCode(cmd) # 0
    THEN <<[kind |-> "cmdline"]>> \o Filtered(rule, cmd)
    ELSE Filtered(rule, cmd)

\* all_out after the first n commands of the rule (lines 168-169)
RECURSIVE AllOut(_, _)
AllOut(rule, n) ==
    IF n = 0 THEN <<>> ELSE AllOut(rule, n - 1) \o Shown(rule, rule.cmds[n])

\* the writes to stdout when run_cmd ends after n commands: line 172 when
\* the n-th failed, lines 179-182 when all succeeded.  erase: built_text
\* starts with the sequence that clears the progress line (lines 113-115)
Report(rule, n, code) ==
    LET all_out == AllOut(rule, n)
    IN IF code # 0 \/ all_out # <<>>
       THEN <<[built |-> rule.targets, erase |-> progress_line, out |-> all_out]>>
       ELSE IF ~progress_line
       THEN <<[built |-> rule.targets, erase |-> FALSE, out |-> <<>>]>>
       ELSE <<>>

\* A mutant of Proceeds: the loop goes on whatever the command's exit code.
ProceedsAlways(outcome) == TRUE

\* run_cmd, lines 117 and 169-175: the loop goes on to the next cmd when the
\* code is 0
Proceeds(outcome) == outcome = "ok"

\* what run_cmd spawned as the ci-th command of the rule (line 123), and the
\* code it got
Spawned(ci, rule) == [ci |-> ci, cmd |-> rule.cmds[ci], code |-> CmdExitCode(rule.cmds[ci])]

\* ------------------------------------------------------- walk: the decision
\* A mutant of DepsCompleted: the walk does not wait for prerequisites.
DepsCompletedAlways(chain) == TRUE

\* build, line 257
DepsCompleted(chain) == \A i \in DOMAIN chain : chain[i] \in completed

\* A mutant of TimestampDeps: order-only deps are compared too.
TimestampDepsWithOrderOnly(frame, rule) == frame.deps \o rule.order_only_deps

\* build, line 264: the deps whose timestamps are taken
TimestampDeps(frame, rule) == frame.deps

\* build, line 263
target_timestamp(rule) ==
    SeqMin([i \in DOMAIN rule.targets |-> get_timestamp_if_exists(rule.targets[i])])

\* A mutant of MissingDep: the test of line 266 is never true.
MissingDepNever(frame, rule) == FALSE

\* build, lines 265-266: a declared dep that does not exist
MissingDep(frame, rule) ==
    \E d \in Range(TimestampDeps(frame, rule)) : get_timestamp_if_exists(d) < 0

\* A mutant of UpToDate: the stored signatures are not compared.
UpToDateByTime(frame, rule) ==
    /\ target_timestamp(rule) >= 0
    /\ \A d \in Range(frame.deps \o frame.d_file_deps) :
           0 <= get_timestamp_if_exists(d) /\ get_timestamp_if_exists(d) <= target_timestamp(rule)

\* build, lines 274-276
UpToDate(frame, rule) ==
    /\ target_timestamp(rule) >= 0
    /\ \A d \in Range(TimestampDeps(frame, rule)) :
           get_timestamp_if_exists(d) <= target_timestamp(rule)
    /\ \A d \in Range(frame.d_file_deps) :
           /\ 0 <= get_timestamp_if_exists(d)
           /\ get_timestamp_if_exists(d) <= target_timestamp(rule)
    /\ \A t \in Range(rule.targets) :
           t \in DOMAIN make_db /\ make_db[t] = signature(rule)

\* build, lines 257-295, once the dependency loop of the innermost call is
\* over: return because a prerequisite is not completed, fail on a missing
\* dep, mark the target completed, or enqueue the rule (parallel) or start
\* run_cmd (serial).  Directories are not part of the model's disk.
WalkDecide ==
    /\ pc = "walk" /\ stack # <<>> /\ inline = NoRun
    /\ Top.k > Len(Chain(Top))
    /\ LET id == rules[Top.target]
           rule == rule_objs[id]
       IN IF ~DepsCompleted(Chain(Top))
          THEN /\ stack' = Pop(stack)
               /\ UNCHANGED <<completed, enqueued, queue, any_errors, pc, raised,
                              inline, mtime, make_db, ran, missing>>
          ELSE IF MissingDep(Top, rule)
          THEN /\ any_errors' = TRUE
               /\ raised' = "SystemExit"
               /\ stack' = <<>>
               /\ pc' = "finally"
               /\ missing' = missing \cup {id}
               /\ UNCHANGED <<completed, enqueued, queue, inline, mtime, make_db, ran>>
          ELSE IF UpToDate(Top, rule)
          THEN /\ completed' = completed \cup {Top.target}
               /\ stack' = Pop(stack)
               /\ UNCHANGED <<enqueued, queue, any_errors, pc, raised, inline, mtime,
                              make_db, ran, missing>>
          ELSE IF parallel
          THEN /\ priority_queue_counter < MaxSeq
               /\ task_queue' = Append(task_queue,
                                       <<0 - rule.priority, priority_queue_counter, id>>)
               /\ priority_queue_counter' = priority_queue_counter + 1
               /\ enqueued' = enqueued \cup Range(rule.targets)
               /\ stack' = Pop(stack)
               /\ UNCHANGED <<completed, any_errors, pc, raised, inline, mtime,
                              make_db, ran, missing>>
          ELSE /\ inline' = [rule |-> id, ci |-> 1]
               /\ mtime' = PreDelete(rule, mtime)
               /\ make_db' = PreDeleteDb(rule, make_db)
               /\ ran' = [ran EXCEPT ![id] = @ + 1]
               /\ UNCHANGED <<completed, enqueued, queue, any_errors, pc, raised, stack,
                              missing>>
    /\ UNCHANGED <<options, rule_objs, sidecar, now, db_file, visited, building, gi,
                   threads, status, history, aside, failed, log, normpath_cache,
                   banners>>

\* serial mode: run_cmd, lines 118-175, for the next cmd of the rule
InlineCmd ==
    /\ inline # NoRun
    /\ inline.ci <= Len(rule_objs[inline.rule].cmds)
    /\ LET rule == rule_objs[inline.rule]
           eff == CmdEffect(rule, rule.cmds[inline.ci])
       IN /\ mtime' = eff.mtime
          /\ sidecar' = eff.sidecar
          /\ now' = eff.now
          /\ any_errors' = (any_errors \/ eff.outcome = "fail")
          /\ failed' = IF eff.outcome = "fail" THEN failed \cup {inline.rule} ELSE failed
          /\ log' = [log EXCEPT ![inline.rule] = Append(@, Spawned(inline.ci, rule))]
          /\ normpath_cache' = normpath_cache \cup eff.normalised
          /\ banners' = IF eff.outcome = "fail"
                         THEN [banners EXCEPT ![inline.rule] = @ \o Report(rule, inline.ci, 1)]
                         ELSE banners
          /\ IF Proceeds(eff.outcome)
             THEN /\ inline' = [inline EXCEPT !.ci = @ + 1]
                  /\ UNCHANGED <<pc, stack, raised>>
             ELSE /\ inline' = NoRun
                  /\ raised' = IF eff.outcome = "fail" THEN "SystemExit" ELSE "Exception"
                  /\ stack' = <<>>
                  /\ pc' = "finally"
    /\ UNCHANGED <<options, rule_objs, db_file, make_db, sets, queue, gi, threads,
                   status, history, aside, ran, missing>>

\* serial mode: run_cmd, lines 177-178, then build, line 295
InlineFinish ==
    /\ inline # NoRun
    /\ inline.ci > Len(rule_objs[inline.rule].cmds)
    /\ LET rule == rule_objs[inline.rule]
       IN /\ make_db' = Commit(rule, make_db)
          /\ completed' = completed \cup Range(rule.targets)
          /\ banners' = [banners EXCEPT ![inline.rule] = @ \o Report(rule, Len(rule.cmds), 0)]
    /\ inline' = NoRun
    /\ stack' = Pop(stack)
    /\ UNCHANGED <<options, rule_objs, disk, db_file, visited, enqueued, building,
                   queue, any_errors, pc, gi, threads, raised, status, history, aside, ran,
                   failed, missing, log, normpath_cache>>

\* --------------------------------------------------------- builder threads
\* (priority, counter) order of the PriorityQueue entries
EntryLess(e1, e2) == e1[1] < e2[1] \/ (e1[1] = e2[1] /\ e1[2] < e2[2])

\* A mutant of MinIndex: get() returns the entry that was put first.
MinIndexFifo(q) == 1

\* the position in task_queue of the entry get() returns
MinIndex(q) == CHOOSE i \in DOMAIN q : \A j \in DOMAIN q : ~EntryLess(q[j], q[i])

RemoveAt(q, i) == SubSeq(q, 1, i - 1) \o SubSeq(q, i + 1, Len(q))

Move(w, w2) == threads' = (threads (-) SetToBag({w})) (+) SetToBag({w2})

\* BuilderThread.run, line 303: the loop test
ThreadCheck(w) ==
    /\ w.pc = "check"
    /\ Move(w, IF any_errors THEN Exited ELSE [w EXCEPT !.pc = "get"])
    /\ UNCHANGED <<options, rule_objs, disk, db_file, make_db, sets, queue,
                   any_errors, pc, stack, gi, inline, raised, status, history, aside, ran,
                   failed, missing, log, normpath_cache,
                   banners>>

\* BuilderThread.run, lines 304-308: get() returns the least entry; a
\* sentinel ends the thread, a rule is put in building and run_cmd deletes
\* its targets (lines 107-111)
ThreadGet(w) ==
    /\ w.pc = "get"
    /\ task_queue # <<>>
    /\ LET i == MinIndex(task_queue)
           id == task_queue[i][3]
       IN /\ task_queue' = RemoveAt(task_queue, i)
          /\ IF id = None
             THEN /\ Move(w, Exited)
                  /\ UNCHANGED <<building, mtime, make_db, ran>>
             ELSE /\ Move(w, [pc |-> "run", rule |-> id, ci |-> 1])
                  /\ building' = building \cup Range(rule_objs[id].targets)
                  /\ mtime' = PreDelete(rule_objs[id], mtime)
                  /\ make_db' = PreDeleteDb(rule_objs[id], make_db)
                  /\ ran' = [ran EXCEPT ![id] = @ + 1]
    /\ UNCHANGED <<options, rule_objs, sidecar, now, db_file, visited, enqueued,
                   completed, priority_queue_counter, any_errors, pc, stack, gi,
                   inline, raised, status, history, aside, failed, missing, log, normpath_cache,
                   banners>>

\* run_cmd, lines 118-175, in a builder thread, for the next cmd of its rule:
\* exit(1) and an exception both end the thread
ThreadCmd(w) ==
    /\ w.pc = "run"
    /\ w.ci <= Len(rule_objs[w.rule].cmds)
    /\ LET rule == rule_objs[w.rule]
           eff == CmdEffect(rule, rule.cmds[w.ci])
       IN /\ mtime' = eff.mtime
          /\ sidecar' = eff.sidecar
          /\ now' = eff.now
          /\ any_errors' = (any_errors \/ eff.outcome = "fail")
          /\ failed' = IF eff.outcome = "fail" THEN failed \cup {w.rule} ELSE failed
          /\ log' = [log EXCEPT ![w.rule] = Append(@, Spawned(w.ci, rule))]
          /\ normpath_cache' = normpath_cache \cup eff.normalised
          /\ banners' = IF eff.outcome = "fail"
                         THEN [banners EXCEPT ![w.rule] = @ \o Report(rule, w.ci, 1)]
                         ELSE banners
          /\ Move(w, IF Proceeds(eff.outcome) THEN [w EXCEPT !.ci = @ + 1] ELSE Exited)
    /\ UNCHANGED <<options, rule_objs, db_file, make_db, sets, queue, pc, stack, gi,
                   inline, raised, status, history, aside, ran, missing>>

\* run_cmd, lines 177-178, then BuilderThread.run, lines 309-310
ThreadFinish(w) ==
    /\ w.pc = "run"
    /\ w.ci > Len(rule_objs[w.rule].cmds)
    /\ LET rule == rule_objs[w.rule]
       IN /\ make_db' = Commit(rule, make_db)
          /\ building' = building \ Range(rule.targets)
          /\ completed' = completed \cup Range(rule.targets)
          /\ banners' = [banners EXCEPT ![w.rule] = @ \o Report(rule, Len(rule.cmds), 0)]
    /\ Move(w, Idle)
    /\ UNCHANGED <<options, rule_objs, disk, db_file, visited, enqueued, queue,
                   any_errors, pc, stack, gi, inline, raised, status, history, aside, ran,
                   failed, missing, log, normpath_cache>>

\* ----------------------------------------------------------- main: the end
\* main, line 440 onwards, when the goals of this pass are walked: in
\* parallel mode lines 445-463 (leave the loop when any_errors or when all
\* goals are completed, else sleep and walk again); serial mode is done
WalkEnd ==
    /\ pc = "walk" /\ stack = <<>> /\ gi > Len(args)
    /\ pc' = IF ~parallel THEN "finally"
             ELSE IF any_errors THEN "finally"
             ELSE IF \A i \in DOMAIN args : args[i] \in completed THEN "finally"
             ELSE "pass"
    /\ UNCHANGED <<options, rule_objs, disk, db_file, make_db, sets, queue,
                   any_errors, stack, gi, inline, threads, raised, status, history, aside,
                   ran, failed, missing, log, normpath_cache,
                   banners>>

\* KeyboardInterrupt is raised in the main thread while it is in the try
\* block of lines 434-466 (in build(), in run_cmd() in serial mode, or in
\* sleep); the finally clause of line 467 is next
Interrupt ==
    /\ pc \in {"pass", "walk"}
    /\ raised' = "KeyboardInterrupt"
    /\ stack' = <<>>
    /\ inline' = NoRun
    /\ pc' = "finally"
    /\ UNCHANGED <<options, rule_objs, disk, db_file, make_db, sets, queue,
                   any_errors, gi, threads, status, history, aside, ran, failed, missing, log, normpath_cache,
                   banners>>

\* A mutant of Sentinels: one sentinel too few.
SentinelsOneLess(n) == [i \in 1..(n - 1) |-> <<SentinelPriority, 0, None>>]

\* main, line 471
Sentinels(n) == [i \in 1..n |-> <<SentinelPriority, 0, None>>]

\* main, lines 467-471: one sentinel per thread
Finally ==
    /\ pc = "finally"
    /\ task_queue' = IF parallel THEN task_queue \o Sentinels(jobs) ELSE task_queue
    /\ pc' = "join"
    /\ UNCHANGED <<options, rule_objs, disk, db_file, make_db, sets,
                   priority_queue_counter, any_errors, stack, gi, inline, threads,
                   raised, status, history, aside, ran, failed, missing, log, normpath_cache,
                   banners>>

\* main, lines 472-486: every thread is joined, make.db is written, the
\* process exits
WriteDb ==
    /\ pc = "join"
    /\ \A w \in BagToSet(threads) : w.pc = "exited"
    /\ db_file' = make_db
    /\ status' = IF any_errors \/ raised # "" THEN 1 ELSE 0
    /\ pc' = "done"
    /\ UNCHANGED <<options, rule_objs, disk, make_db, sets, queue, any_errors, stack,
                   gi, inline, threads, raised, history, aside, ran, failed, missing, log, normpath_cache,
                   banners>>

\* ------------------------------------------- between the two invocations
\* the rule with one more command in front, or one that fails at the end
CmdsEdits(rule) == {<<"true">> \o rule.cmds, rule.cmds \o <<"false">>}

\* the rule with its order-only deps dropped, or with one on a source file
OrderOnlyEdit(order_only_deps) ==
    IF order_only_deps = <<>> THEN <<"/p/s1">> ELSE <<>>

\* the rule with its targets renamed: to a path no rule builds, or to the
\* targets of another rule
TargetsEdits(objs, r) ==
    {<<"/p/_out/n">>} \cup {objs[q].targets : q \in DOMAIN objs \ {r}}

Edited(objs, e) ==
    IF e.kind = "cmds" THEN [objs EXCEPT ![e.rule].cmds = e.cmds]
    ELSE IF e.kind = "targets" THEN [objs EXCEPT ![e.rule].targets = e.targets]
    ELSE IF e.kind = "order_only_deps"
    THEN [objs EXCEPT ![e.rule].order_only_deps = OrderOnlyEdit(@)]
    ELSE IF e.kind = "stdout_filter"
    THEN [objs EXCEPT ![e.rule].stdout_filter = "^warning"]
    ELSE IF e.kind = "latency" THEN [objs EXCEPT ![e.rule].latency = @ + 1]
    ELSE objs

Edits ==
    {[kind |-> "none"]}
    \cup {[kind |-> "touch", path |-> p] : p \in {q \in AbsolutePaths : Exists(q)}}
    \cup {[kind |-> "cmds", rule |-> r, cmds |-> c] :
             r \in RuleIds, c \in UNION {CmdsEdits(rule_objs[i]) : i \in RuleIds}}
    \cup {[kind |-> k, rule |-> r] :
             k \in {"order_only_deps", "stdout_filter", "latency"}, r \in RuleIds}
    \cup {[kind |-> "targets", rule |-> r, targets |-> t] :
             r \in RuleIds, t \in UNION {TargetsEdits(rule_objs, i) : i \in RuleIds}}

\* the edits after which the second invocation is also tried with -c
CleanEdits == {"none", "targets"}

\* The first invocation ended with status 0.  One thing is changed (a file
\* is touched, or the rules.py gives one rule other cmds, order-only deps,
\* filter, latency or targets), and main() is started again, with or
\* without -c: a new process, whose globals are those of lines 47-56 and
\* whose rules are loaded afresh.
Again ==
    /\ pc = "done" /\ run = 1 /\ status = 0 /\ ~mode.replayed
    /\ \E e \in Edits, c \in BOOLEAN :
        /\ e.kind = "cmds" => e.cmds \in CmdsEdits(rule_objs[e.rule])
        /\ e.kind = "targets" => e.targets \in TargetsEdits(rule_objs, e.rule)
        /\ c => e.kind \in CleanEdits
        /\ edit' = e
        /\ clean' = c
        /\ rule_objs' = [i \in RuleIds |-> [Edited(rule_objs, e)[i] EXCEPT !.priority = 0]]
        /\ mtime' = IF e.kind = "touch" THEN [mtime EXCEPT ![e.path] = now] ELSE mtime
        /\ now' = IF e.kind = "touch" THEN now + 1 ELSE now
        /\ mode' = [start |-> [mtime |-> mtime', sidecar |-> sidecar,
                               db_file |-> db_file, now |-> now'],
                    serial |-> NoSerial, replayed |-> FALSE]
    /\ run' = 2
    /\ prev' = [db_file |-> db_file, rule_objs |-> rule_objs, mtime |-> mtime]
    /\ make_db' = <<>>
    /\ visited' = {} /\ enqueued' = {} /\ completed' = {} /\ building' = {}
    /\ task_queue' = <<>>
    /\ priority_queue_counter' = 0
    /\ any_errors' = FALSE
    /\ pc' = "start"
    /\ stack' = <<>>
    /\ gi' = 1
    /\ inline' = NoRun
    /\ threads' = EmptyBag
    /\ raised' = ""
    /\ status' = -1
    /\ ran' = [i \in RuleIds |-> 0]
    /\ failed' = {}
    /\ missing' = {}
    /\ log' = [i \in RuleIds |-> <<>>]
    /\ normpath_cache' = {}
    /\ banners' = [i \in RuleIds |-> <<>>]
    /\ UNCHANGED <<verbose, console>>
    /\ UNCHANGED <<parallel, jobs, args, sidecar, db_file, aside>>

\* The same invocation once more, in the other mode: a serial invocation
\* has ended; the disk is put back as it was when that invocation started,
\* and main() is started with the same rules.py, goals and -c, without
\* --no-parallel and with -j 1..MaxJobs.  (Not after an interrupted one.)
Replay ==
    /\ pc = "done" /\ ~parallel /\ ~mode.replayed /\ raised # "KeyboardInterrupt"
    /\ parallel' = TRUE
    /\ \E j \in 1..MaxJobs : jobs' = j
    /\ mode' = [mode EXCEPT !.replayed = TRUE,
                            !.serial = [ran |-> ran,
                                        exists |-> {p \in AbsolutePaths : Exists(p)},
                                        db_file |-> db_file,
                                        status |-> status]]
    /\ mtime' = mode.start.mtime
    /\ sidecar' = mode.start.sidecar
    /\ db_file' = mode.start.db_file
    /\ now' = mode.start.now
    /\ rule_objs' = [i \in RuleIds |-> [rule_objs[i] EXCEPT !.priority = 0]]
    /\ make_db' = <<>>
    /\ visited' = {} /\ enqueued' = {} /\ completed' = {} /\ building' = {}
    /\ task_queue' = <<>>
    /\ priority_queue_counter' = 0
    /\ any_errors' = FALSE
    /\ pc' = "start"
    /\ stack' = <<>>
    /\ gi' = 1
    /\ inline' = NoRun
    /\ threads' = EmptyBag
    /\ raised' = ""
    /\ status' = -1
    /\ ran' = [i \in RuleIds |-> 0]
    /\ failed' = {}
    /\ missing' = {}
    /\ log' = [i \in RuleIds |-> <<>>]
    /\ normpath_cache' = {}
    /\ banners' = [i \in RuleIds |-> <<>>]
    /\ UNCHANGED <<verbose, console>>
    /\ UNCHANGED <<args, clean, run, edit, prev, aside>>

\* ------------------------------------------------------------------ Next
Next ==
    \/ MainStart
    \/ Pass
    \/ WalkGoal
    \/ WalkDep
    \/ WalkDecide
    \/ InlineCmd
    \/ InlineFinish
    \/ WalkEnd
    \/ Finally
    \/ WriteDb
    \/ \E w \in BagToSet(threads) : ThreadCheck(w)
    \/ \E w \in BagToSet(threads) : ThreadGet(w)
    \/ \E w \in BagToSet(threads) : ThreadCmd(w)
    \/ \E w \in BagToSet(threads) : ThreadFinish(w)
    \/ Interrupt
    \/ Again

Spec == Init /\ [][Next]_vars

\* the steps of the main thread, once the build is set up, and of the
\* builder threads
Steps ==
    \/ Pass
    \/ WalkGoal
    \/ WalkDep
    \/ WalkDecide
    \/ InlineCmd
    \/ InlineFinish
    \/ WalkEnd
    \/ Finally
    \/ WriteDb
    \/ \E w \in BagToSet(threads) : ThreadCheck(w)
    \/ \E w \in BagToSet(threads) : ThreadGet(w)
    \/ \E w \in BagToSet(threads) : ThreadCmd(w)
    \/ \E w \in BagToSet(threads) : ThreadFinish(w)

\* one invocation of main(), which may be interrupted
OneRun ==
    \/ MainStart
    \/ Steps
    \/ Interrupt

\* One invocation, with threads that are scheduled: when a step of the
\* program stays possible, a step is taken (the main thread and the builder
\* threads run, a spawned command exits, a blocked get() returns when the
\* queue has an entry).  Nothing is assumed of Ctrl-C.
LiveSpec == Init /\ [][OneRun]_vars /\ WF_vars(Steps)

\* Two invocations as in Spec, and each serial invocation followed by the
\* same invocation in parallel mode.
ModesNext ==
    \/ Next
    \/ Replay

ModesSpec == Init /\ [][ModesNext]_vars

\* ============================================================ properties
Done == pc = "done"

\* the rules run_cmd was called for in this invocation
Executed == {r \in RuleIds : ran[r] > 0}

\* every prerequisite of a rule as the walk reads it now: declared, listed
\* in the d_file, order-only
Prereqs(rule) ==
    Range(NormAll(rule.cwd, rule.deps)) \cup Range(d_file_deps_of(rule))
        \cup Range(rule.order_only_deps)

\* the prerequisites whose timestamps count: declared and discovered
DeclaredAndDiscovered(rule) ==
    Range(NormAll(rule.cwd, rule.deps)) \cup Range(d_file_deps_of(rule))

\* the goals and everything they need, directly or transitively
RECURSIVE Closure(_)
Closure(S) ==
    LET more == S \cup UNION {Prereqs(rule_objs[rules[t]]) : t \in S \cap DOMAIN rules}
    IN IF more = S THEN S ELSE Closure(more)

GoalClosure == Closure(Range(args))

\* the paths that depend on a path of S through declared or discovered edges
RECURSIVE Dependents(_)
Dependents(S) ==
    LET more == S \cup UNION {Range(rule_objs[r].targets) :
                     r \in {q \in RuleIds : DeclaredAndDiscovered(rule_objs[q]) \cap S # {}}}
    IN IF more = S THEN S ELSE Dependents(more)

\* the rules of the goals' closure that depend on path p that way
RulesDependingOn(p) ==
    {r \in RuleIds : /\ Range(rule_objs[r].targets) \cap GoalClosure # {}
                     /\ Range(rule_objs[r].targets) \cap Dependents({p}) # {}}

\* the rules being executed: by a builder thread, or inline
Running == {w.rule : w \in {v \in BagToSet(threads) : v.pc = "run"}}
               \cup (IF inline = NoRun THEN {} ELSE {inline.rule})

\* the rules that were just handed to run_cmd: no command has run yet
Starting == {w.rule : w \in {v \in BagToSet(threads) : v.pc = "run" /\ v.ci = 1}}
               \cup (IF inline # NoRun /\ inline.ci = 1 THEN {inline.rule} ELSE {})

Queued == {task_queue[i][3] : i \in DOMAIN task_queue} \ {None}

\* C1: a rule is on the task queue, or starts executing (popped by a worker,
\* or run inline), only with every declared, d_file-listed and order-only
\* prerequisite in completed.
C1_PrereqsCompleted ==
    \A r \in Queued \cup Starting : Prereqs(rule_objs[r]) \subseteq completed

\* C1 witness: a worker has popped a rule that needs the target of another
\* rule, which has d_file-listed prerequisites and was executed before it in
\* this invocation.
C1_Witness ==
    /\ parallel
    /\ \E r \in Starting, q \in RuleIds :
          /\ Range(rule_objs[q].targets) \cap Prereqs(rule_objs[r]) # {}
          /\ d_file_deps_of(rule_objs[q]) # <<>>
          /\ ran[q] = 1

\* C2: in one invocation run_cmd is called at most once for each rule.
C2_AtMostOnce == \A r \in RuleIds : ran[r] <= 1

\* C2 witness: a parallel build is over in which the rule with two targets,
\* both prerequisites of the goal, was executed.
C2_Witness ==
    /\ Done /\ parallel /\ jobs = MaxJobs
    /\ \E r \in RuleIds : ran[r] = 1 /\ Len(rule_objs[r].targets) = 2

\* C3: a process that ends with exit status 0 has every goal in completed.
C3_ExitZeroGoalsCompleted ==
    (Done /\ status = 0) => \A i \in DOMAIN args : args[i] \in completed

C5_NoStartAfterError == [][any_errors => ran' = ran]_vars

\* the first invocation left every target of the goals' closure on disk
\* (every command it executed created its targets)
AllTargetsBuilt == \A t \in GoalClosure \cap DOMAIN rules : prev.mtime[t] >= 0

\* C6: a second invocation with nothing changed (without -c, and ending
\* with status 0) executes nothing, ends with completed equal to the goals'
\* closure and writes the same make.db.
C6_Idempotent ==
    (Done /\ run = 2 /\ edit.kind = "none" /\ ~clean /\ status = 0 /\ AllTargetsBuilt)
        => /\ Executed = {}
           /\ completed = GoalClosure
           /\ db_file = prev.db_file

\* C7: after one source file is touched, a second invocation that succeeds
\* has executed exactly the rules of the goals' closure that depend on it
\* through declared or discovered prerequisites.
C7_Minimal ==
    (Done /\ run = 2 /\ status = 0 /\ AllTargetsBuilt /\ edit.kind = "touch"
          /\ edit.path \notin DOMAIN rules)
        => Executed = RulesDependingOn(edit.path)

\* the rule's targets existed, none older than a declared prerequisite, when
\* the second invocation started
WasFresh(r) ==
    \A t \in Range(rule_objs[r].targets) :
        /\ prev.mtime[t] >= 0
        /\ \A d \in Range(NormAll(rule_objs[r].cwd, rule_objs[r].deps)) :
               prev.mtime[d] <= prev.mtime[t]

SameSignature(r) == signature(rule_objs[r]) = signature(prev.rule_objs[r])

\* C8: a rule whose cmds were changed is executed again by a second
\* invocation that ends with status 0, and no rule is that has its old
\* signature and does not depend on the changed rule's targets.
C8_CmdsChangeRebuilds ==
    (Done /\ run = 2 /\ status = 0 /\ edit.kind = "cmds" /\ AllTargetsBuilt
          /\ WasFresh(edit.rule)
          /\ Range(rule_objs[edit.rule].targets) \cap GoalClosure # {})
        => /\ ran[edit.rule] = 1
           /\ \A r \in RuleIds \ {edit.rule} :
                 (/\ SameSignature(r)
                  /\ Range(rule_objs[r].targets)
                        \cap Dependents(Range(rule_objs[edit.rule].targets)) = {})
                 => ran[r] = 0

UnsignedFields == {"order_only_deps", "stdout_filter", "latency"}

BuiltOrderOnly(r) == Range(rule_objs[r].order_only_deps) \cap DOMAIN rules

\* C10: a rule with an order-only prerequisite built by another rule runs
\* only when that prerequisite is in completed, and is not executed by a
\* second invocation after a touch of a file it does not depend on through
\* declared or discovered prerequisites, such as the order-only
\* prerequisite or a source of it.
C10_OrderOnlyGating ==
    /\ \A r \in Running : BuiltOrderOnly(r) \subseteq completed
    /\ (run = 2 /\ edit.kind = "touch")
          => \A r \in RuleIds :
                (/\ BuiltOrderOnly(r) # {}
                 /\ WasFresh(r)
                 /\ Range(rule_objs[r].targets) \cap Dependents({edit.path}) = {})
                => ran[r] = 0

\* C10 witness: the second invocation is over; the order-only prerequisite
\* was touched, is newer than the rule's target, and the rule is completed.
C10_Witness ==
    /\ Done /\ run = 2 /\ edit.kind = "touch"
    /\ \E r \in RuleIds :
          /\ edit.path \in BuiltOrderOnly(r)
          /\ \A t \in Range(rule_objs[r].targets) :
                t \in completed /\ mtime[edit.path] > mtime[t]

\* C11: an invocation in serial mode and the same invocation in parallel
\* mode (same rules, goals, files and make.db at the start), both ending
\* with status 0, have executed the same rules and leave the same files on
\* disk and the same records in make.db.
C11_ModesAgree ==
    (Done /\ mode.replayed /\ status = 0 /\ mode.serial.status = 0)
        => /\ Executed = {r \in RuleIds : mode.serial.ran[r] > 0}
           /\ {p \in AbsolutePaths : Exists(p)} = mode.serial.exists
           /\ db_file = mode.serial.db_file

\* the positions of task_queue that hold a rule
RuleEntries == {i \in DOMAIN task_queue : task_queue[i][3] # None}

\* rule r is in the queue, no rule in the queue has a larger priority, and
\* of those with its priority it has the smallest sequence number
Foremost(r) ==
    \E i \in RuleEntries :
        /\ task_queue[i][3] = r
        /\ \A j \in RuleEntries \ {i} :
              \/ rule_objs[r].priority > rule_objs[task_queue[j][3]].priority
              \/ /\ rule_objs[r].priority = rule_objs[task_queue[j][3]].priority
                 /\ task_queue[i][2] < task_queue[j][2]

\* C12: the rule a builder thread pops (it starts run_cmd for it) is, of
\* the rules in the queue at that step, the one with the largest priority,
\* and of those with that priority the one enqueued first.
C12_PopsForemost ==
    [][\A r \in RuleIds : (parallel /\ ran'[r] = ran[r] + 1) => Foremost(r)]_vars

\* C12 witness: a thread has popped a rule while the rule that was enqueued
\* first of all (sequence number 0), of smaller priority, is in the queue.
C12_Witness ==
    /\ parallel
    /\ \E r \in Starting, i \in RuleEntries :
          /\ task_queue[i][2] = 0
          /\ rule_objs[r].priority > rule_objs[task_queue[i][3]].priority

\* C12 witness of the tie: a thread has popped one of three rules of equal
\* priority, the other two are in the queue
C12_WitnessTie ==
    /\ parallel
    /\ \E r \in Starting, i, j \in RuleEntries :
          /\ i # j
          /\ rule_objs[r].priority = rule_objs[task_queue[i][3]].priority
          /\ rule_objs[r].priority = rule_objs[task_queue[j][3]].priority

\* spec scenario F (the loader CriticalPath, either order of the goal's
\* deps), first invocation, parallel mode with 2 builder threads; its rules
\* in registration order are X, A, B and the goal
ScenarioF ==
    /\ run = 1 /\ parallel /\ jobs = 2
    /\ Len(rule_objs) = 4
    /\ rule_objs[1].latency = 10

\* C13: in scenario F, whatever the order of the goal's deps and the
\* interleaving of walk and threads, B is popped by a builder thread only
\* after X was.
C13_XBeforeB == ScenarioF => (ran[3] > 0 => ran[1] > 0)

\* the declared deps of a rule, canonical
Declared(r) == Range(NormAll(rule_objs[r].cwd, rule_objs[r].deps))

\* C14: a rule that build() found with a declared dep that is not on disk
\* (its prerequisites all completed) is not executed in this invocation,
\* any_errors is set, and the process ends, with exit status 1; no rule is
\* being executed with a declared dep that is not on disk.
C14_MissingDepFatal ==
    /\ [](\A r \in missing : any_errors /\ ran[r] = 0 /\ (Done => status = 1))
    /\ [](\A r \in Running : \A d \in Declared(r) : Exists(d))
    /\ (missing # {}) ~> (Done /\ status = 1)

\* the two invariants of C14, for both invocations of Spec
C14_Always ==
    /\ \A r \in missing : any_errors /\ ran[r] = 0 /\ (Done => status = 1)
    /\ \A r \in Running : \A d \in Declared(r) : Exists(d)

\* C14 witness: a parallel build has ended after build() found a rule whose
\* declared dep is the target of a rule that was executed and did not
\* write it.
C14_Witness ==
    /\ Done /\ parallel
    /\ \E r \in missing, q \in RuleIds :
          /\ ran[q] = 1
          /\ \E t \in Range(rule_objs[q].targets) : t \in Declared(r) /\ ~Exists(t)

\* the number of sentinels in a queue
SentinelCount(q) == Cardinality({i \in DOMAIN q : q[i][3] = None})

AllExited == \A w \in BagToSet(threads) : w.pc = "exited"

\* C15: in parallel mode, however main() leaves the build loop (goals
\* completed, any_errors, the exit of a missing dep, Ctrl-C), it then puts
\* one sentinel per builder thread on the queue, every thread ends, and
\* make.db is written, only when every thread has ended.
C15_Shutdown ==
    /\ [][(parallel /\ pc = "finally" /\ pc' # "finally")
            => SentinelCount(task_queue') = SentinelCount(task_queue) + jobs]_vars
    /\ [][db_file' # db_file => (pc = "join" /\ AllExited)]_vars
    /\ [](Done => AllExited)
    /\ (parallel /\ pc = "finally") ~> (Done /\ AllExited /\ db_file = make_db)

\* C15 witness: a parallel build with MaxJobs threads that was interrupted
\* while a thread was executing a rule has ended; the rule was finished,
\* and its record is in the make.db that was written.
C15_Witness ==
    /\ Done /\ parallel /\ jobs = MaxJobs
    /\ raised = "KeyboardInterrupt"
    /\ AllExited
    /\ \E r \in RuleIds :
          ran[r] = 1 /\ \A t \in Range(rule_objs[r].targets) : t \in DOMAIN db_file

\* the add_rule calls of the rules.py that name target t
Claimed(t) == {r \in RuleIds : t \in Range(rule_objs[r].targets)}

OneRuleEach == \A t \in TargetsOf(rule_objs) : Cardinality(Claimed(t)) = 1

\* nothing was done to the files and make.db this invocation started with,
\* no builder thread was started, no rule enqueued or executed
NothingDone ==
    /\ mtime = mode.start.mtime
    /\ db_file = mode.start.db_file
    /\ threads = EmptyBag
    /\ task_queue = <<>> /\ enqueued = {}
    /\ \A r \in RuleIds : ran[r] = 0

\* C16: when the rules.py names a target in two add_rule calls, the process
\* does nothing to files, make.db, queue and threads and ends with status
\* 1; so while a build is under way every target has exactly one rule.
C16_ConflictAborts ==
    ~OneRuleEach => /\ pc \in {"start", "done"}
                    /\ NothingDone
                    /\ Done => status = 1

\* C16 witness: the second invocation has ended on a conflict made by
\* renaming a rule's target to that of another rule; the old target, which
\* no rule builds any more, is on disk and in make.db.
C16_Witness ==
    /\ Done /\ run = 2 /\ ~OneRuleEach /\ edit.kind = "targets"
    /\ \E t \in Range(prev.rule_objs[edit.rule].targets) :
          /\ Claimed(t) = {}
          /\ Exists(t) /\ t \in DOMAIN db_file

\* a rule of the goals' closure needs, through declared, d_file-listed or
\* order-only prerequisites, one of its own targets
HasCycle ==
    \E t \in GoalClosure \cap DOMAIN rules : t \in Closure(Prereqs(rule_objs[rules[t]]))

StaleAtStart == {t \in DOMAIN mode.start.db_file : t \notin DOMAIN rules}

ClosureRules == {r \in RuleIds : Range(rule_objs[r].targets) \cap GoalClosure # {}}

\* the build is set up and no rule has been enqueued or executed yet
BeforeFirstRule ==
    /\ pc \in {"pass", "walk"}
    /\ enqueued = {}
    /\ \A r \in RuleIds : ran[r] = 0

C19_UnlessOnLoader ==
    (clean /\ LoaderFile \notin GoalClosure)
        => /\ BeforeFirstRule
                  => /\ \A p \in OutTree(Cwd) : ~Exists(p)
                     /\ make_db = <<>>
           /\ (Done /\ status = 0) => \A r \in ClosureRules : ran[r] = 1

\* C19 witness: a build with -c has ended with status 0, and has executed
\* a rule whose target is not under _out and was, when the build started,
\* on disk, signed in make.db and not older than its deps.
C19_Witness ==
    /\ Done /\ clean /\ status = 0
    /\ \E r \in ClosureRules :
          /\ ran[r] = 1
          /\ WasFresh(r)
          /\ \A t \in Range(rule_objs[r].targets) :
                /\ t \notin OutTree(Cwd)
                /\ t \in DOMAIN prev.db_file
                /\ prev.db_file[t] = signature(rule_objs[r])

\* C20: when a goal is the target of no rule, the process does nothing to
\* files, make.db, queue and threads and ends with status 1.
C20_UnknownGoalAborts ==
    (\E g \in Range(args) : Claimed(g) = {})
        => /\ pc \in {"start", "done"}
           /\ NothingDone
           /\ Done => status = 1

\* C20 witness: the second invocation has ended on a goal whose rule was
\* given another target; targets that no rule builds any more are on disk
\* and in make.db, which has the records the first invocation wrote.
C20_Witness ==
    /\ Done /\ run = 2 /\ status = 1
    /\ \E g \in Range(args) : Claimed(g) = {}
    /\ \E t \in StaleAtStart : Exists(t) /\ t \in DOMAIN db_file
    /\ db_file = prev.db_file

\* ------------------------------------------------------------ the d_file as text
\* A d_file is text: here a sequence of characters.  The paths written to it
\* are sequences of characters too.
MaxDeps == 3

\* the characters of the model, in code point order (sorted() compares by it)
CharOrder == <<"\n", " ", "/", ":", "\\", "a", "b", "p">>

Ord(c) == CHOOSE i \in DOMAIN CharOrder : CharOrder[i] = c

\* str.__lt__: lexicographic by code point, a proper prefix is smaller
RECURSIVE TextLess(_, _)
TextLess(x, y) ==
    IF y = <<>> THEN FALSE
    ELSE IF x = <<>> THEN TRUE
    ELSE IF Head(x) # Head(y) THEN Ord(Head(x)) < Ord(Head(y))
    ELSE TextLess(Tail(x), Tail(y))

\* sorted(deps) of a set of strings (run_cmd, line 147)
RECURSIVE sorted(_)
sorted(S) ==
    IF S = {} THEN <<>>
    ELSE LET m == CHOOSE x \in S : \A y \in S \ {x} : TextLess(x, y)
         IN <<m>> \o sorted(S \ {m})

RECURSIVE Concat(_)
Concat(ss) == IF ss = <<>> THEN <<>> ELSE Head(ss) \o Concat(Tail(ss))

\* run_cmd, lines 143-149: '%s: \\\n' % targets[0], then '  %s \\\n' % dep for
\* each dep in sorted order, then '\n'
WriteDFile(target, deps) ==
    LET lines == [i \in 1..Cardinality(deps) |->
                      <<" ", " ">> \o sorted(deps)[i] \o <<" ", "\\", "\n">>]
    IN target \o <<":", " ", "\\", "\n">> \o Concat(lines) \o <<"\n">>

\* str.replace('\\\n', ''), line 248: left to right, without overlap
RECURSIVE Unfold(_)
Unfold(text) ==
    IF text = <<>> THEN <<>>
    ELSE IF Len(text) >= 2 /\ text[1] = "\\" /\ text[2] = "\n"
         THEN Unfold(Tail(Tail(text)))
    ELSE <<Head(text)>> \o Unfold(Tail(text))

Whitespace == {" ", "\n"}

\* One scan for both splitters: tok is the token being read (intok: one is
\* being read), out the tokens read.  With escapes (shlex in posix mode) a
\* backslash is dropped and the character after it taken as it is; a
\* backslash at the very end raises ValueError.
RECURSIVE Scan(_, _, _, _, _)
Scan(text, tok, intok, out, escapes) ==
    IF text = <<>> THEN (IF intok THEN Append(out, tok) ELSE out)
    ELSE IF escapes /\ Head(text) = "\\"
         THEN IF Len(text) = 1 THEN <<<<"ValueError">>>>
              ELSE Scan(Tail(Tail(text)), Append(tok, text[2]), TRUE, out, escapes)
    ELSE IF Head(text) \in Whitespace
         THEN Scan(Tail(text), <<>>, FALSE,
                   IF intok THEN Append(out, tok) ELSE out, escapes)
    ELSE Scan(Tail(text), Append(tok, Head(text)), TRUE, out, escapes)

\* str.split(): the maximal runs without whitespace
split(text) == Scan(text, <<>>, FALSE, <<>>, FALSE)

\* shlex.split(): the same with backslash escapes (the model has no quote
\* character)
shlex_split(text) == Scan(text, <<>>, FALSE, <<>>, TRUE)

\* os.path.join on text: an absolute path stands, a relative one goes below cwd
joinpath_text(cwd, path) == IF path # <<>> /\ Head(path) = "/" THEN path ELSE cwd \o <<"/">> \o path

\* build, lines 244-253: the tokens of the unfolded text but the first, each
\* joined to the rule's cwd and normalised
ReadDFile(cwd, text) ==
    LET unfolded == Unfold(text)
        tokens == IF "\\" \in Range(unfolded) THEN shlex_split(unfolded)
                  ELSE split(unfolded)
    IN [i \in 1..(Len(tokens) - 1) |-> normpath(joinpath_text(cwd, tokens[i + 1]))]

\* the rule's cwd, and the canonical (absolute, normalised) paths it is tried with
TextCwd == <<"/", "p">>
TextTargets == {<<"/", "p", "/", "a">>, <<"/", "a", " ", "b">>}
TextDeps == {<<"/", "a">>, <<"/", "b">>, <<"/", "b", "/", "a">>, <<"/", "p", "/", "b">>, <<"/", "a", " ", "b">>, <<"/", "a", "\\", "b">>}

DFileInit ==
    /\ Started(Hello(TRUE), FALSE, 1)
    /\ Quiet
    /\ parser = NoParser
    /\ io = NoIo
    /\ \E target \in TextTargets, deps \in SUBSET TextDeps :
           /\ Cardinality(deps) <= MaxDeps
           /\ dfile = [stage |-> "run", target |-> target, deps |-> deps,
                       text |-> <<>>, read |-> <<>>]

\* the include-scan executor writes the d_file
DFileWrite ==
    /\ dfile.stage = "run"
    /\ dfile' = [dfile EXCEPT !.stage = "written",
                              !.text = WriteDFile(dfile.target, dfile.deps)]
    /\ UNCHANGED <<engine, parser, io>>

\* the next walk reads it
DFileRead ==
    /\ dfile.stage = "written"
    /\ dfile' = [dfile EXCEPT !.stage = "read", !.read = ReadDFile(TextCwd, dfile.text)]
    /\ UNCHANGED <<engine, parser, io>>

DFileNext == DFileWrite \/ DFileRead

DFileSpec == DFileInit /\ [][DFileNext]_vars

\* C21: reading back a d_file the include-scan executor wrote for one target
\* and a set of canonical dep paths returns the sorted list of exactly those
\* paths, the target token dropped.
C21_RoundTrip == dfile.stage = "read" => dfile.read = sorted(dfile.deps)

\* the same for the paths without a space or a backslash
Plain(path) == Range(path) \cap {" ", "\\"} = {}
C21_PlainRoundTrip == (dfile.stage = "read" /\ \A x \in dfile.deps \cup {dfile.target} : Plain(x)) => dfile.read = sorted(dfile.deps)

\* ------------------------------------------------------------ gnu_make_parse.py: variables
\* An expression of the parser: a str, or a tuple (fn, *args) with fn 'var'
\* or 'join'.  Here a record each, so that the two compare.
MaxLines == 3
MaxDepth == 12

Str(s) == [fn |-> "str", s |-> s]
Var(value) == [fn |-> "var", args |-> <<value>>]
RecursionError == [fn |-> "RecursionError"]

\* Join, lines 62-80: adjacent strings are merged, empty strings dropped, a
\* nested join is spliced in; nothing is '', one item is the item
RECURSIVE JoinInto(_, _)
JoinInto(r, new_args) ==
    IF new_args = <<>> THEN r
    ELSE LET arg == Head(new_args)
             last == r[Len(r)]
         IN IF arg.fn = "str"
            THEN IF arg.s = "" THEN JoinInto(r, Tail(new_args))
                 ELSE IF r # <<>> /\ last.fn = "str"
                      THEN JoinInto([r EXCEPT ![Len(r)] = Str(last.s \o arg.s)], Tail(new_args))
                 ELSE JoinInto(Append(r, arg), Tail(new_args))
            ELSE IF arg.fn = "join" THEN JoinInto(r \o arg.args, Tail(new_args))
            ELSE JoinInto(Append(r, arg), Tail(new_args))

Join(new_args) ==
    LET r == JoinInto(<<>>, new_args)
    IN IF r = <<>> THEN Str("")
       ELSE IF Len(r) = 1 THEN r[1]
       ELSE [fn |-> "join", args |-> r]

\* The right-hand sides are sequences of atoms: text, $(name) or $($(name)).
Text(s) == [kind |-> "text", s |-> s]
Ref(name) == [kind |-> "ref", name |-> name]
Ref2(name) == [kind |-> "ref2", name |-> name]

\* parse_atom, lines 135-262, for these atoms: text stands, $(name) is
\* Var(name), and the name of $($(name)) is parsed as a sub-expression
parse_atom(atom) ==
    IF atom.kind = "text" THEN Str(atom.s)
    ELSE IF atom.kind = "ref" THEN Var(Str(atom.name))
    ELSE Var(Join(<<Str(""), Var(Str(atom.name))>>))

\* parse_expr, lines 264-273
parse_expr(atoms) == Join([i \in DOMAIN atoms |-> parse_atom(atoms[i])])

\* eval, lines 275-321.  depth is the room left on the interpreter's stack:
\* without room the call raises RecursionError, which every caller passes on.
RECURSIVE eval(_, _, _)
eval(variables, expr, depth) ==
    IF depth = 0 THEN RecursionError
    ELSE IF expr.fn = "str" THEN expr
    ELSE LET new_args == [i \in DOMAIN expr.args |-> eval(variables, expr.args[i], depth - 1)]
         IN IF \E i \in DOMAIN new_args : new_args[i] = RecursionError THEN RecursionError
            ELSE IF expr.fn = "join" THEN Join(new_args)
            ELSE LET name == new_args[1].s
                     value == IF name \in DOMAIN variables THEN variables[name]
                              ELSE Str("")
                 IN eval(variables, value, depth - 1)

\* what ':=' stores (lines 459-460) ...
Unevaluated(variables, expr) == expr
SimpleValue(variables, expr) == eval(variables, expr, MaxDepth)

\* ... and what '=' stores (lines 476-478)
RecursiveValue(variables, expr) == expr

\* the makefiles tried: names, and right-hand sides as in the tests of
\* gnu_make_test.py, lines 158-178
Names == {"x", "y", "c"}
Values == {<<Text("a")>>, <<Text("x")>>, <<Ref("x")>>, <<Ref("y")>>, <<Ref("x"), Text(" b")>>, <<Ref2("c")>>}

\* --- what the text of a makefile means, told without the parser's
\* expressions: defs[n] is the last assignment to n, with (for ':=') the text
\* its right-hand side stood for when the assignment was read
RECURSIVE Expand(_, _, _)
RECURSIVE ExpandVar(_, _, _)
RECURSIVE ExpandAll(_, _, _)
ExpandVar(defs, n, active) ==
    IF n \notin DOMAIN defs THEN ""
    ELSE IF defs[n].simple THEN defs[n].value
    ELSE IF n \in active THEN "RecursionError"
    ELSE Expand(defs, defs[n].rhs, active \cup {n})

ExpandAll(defs, atoms, active) ==
    IF atoms = <<>> THEN <<>>
    ELSE LET atom == Head(atoms)
             inner == ExpandVar(defs, atom.name, active)
             part == IF atom.kind = "text" THEN atom.s
                     ELSE IF atom.kind = "ref" THEN inner
                     ELSE IF inner = "RecursionError" THEN inner
                     ELSE ExpandVar(defs, inner, active)
         IN <<part>> \o ExpandAll(defs, Tail(atoms), active)

RECURSIVE Glue(_)
Glue(parts) == IF parts = <<>> THEN "" ELSE Head(parts) \o Glue(Tail(parts))

Expand(defs, atoms, active) ==
    LET parts == ExpandAll(defs, atoms, active)
    IN IF "RecursionError" \in Range(parts) THEN "RecursionError" ELSE Glue(parts)

ParseInit ==
    /\ Started(Hello(TRUE), FALSE, 1)
    /\ Quiet
    /\ dfile = NoDFile
    /\ io = NoIo
    /\ parser = [stage |-> "lines",
                 variables |-> [n \in {"MAKE"} |-> Str("make")],
                 recursive_vars |-> <<>>,
                 defs |-> [n \in {"MAKE"} |-> [simple |-> TRUE, rhs |-> <<Text("make")>>,
                                               value |-> "make"]],
                 lines |-> 0, use |-> <<>>]

Put(f, k, v) == [x \in DOMAIN f \cup {k} |-> IF x = k THEN v ELSE f[x]]

\* parse_line, lines 454-460: name := value
AssignSimple ==
    /\ parser.stage = "lines" /\ parser.lines < MaxLines
    /\ \E name \in Names, value \in Values :
        LET expr == parse_expr(value)
            v == SimpleValue(parser.variables, expr)
        IN IF v = RecursionError
           THEN parser' = [parser EXCEPT !.stage = "RecursionError"]
           ELSE parser' = [parser EXCEPT
                    !.variables = Put(parser.variables, name, v),
                    !.recursive_vars = Put(parser.recursive_vars, name, FALSE),
                    !.defs = Put(parser.defs, name,
                                 [simple |-> TRUE, rhs |-> value,
                                  value |-> Expand(parser.defs, value, {})]),
                    !.lines = parser.lines + 1]
    /\ UNCHANGED <<engine, dfile, io>>

\* parse_line, lines 454-458 and 475-478: name = value
AssignRecursive ==
    /\ parser.stage = "lines" /\ parser.lines < MaxLines
    /\ \E name \in Names, value \in Values :
        parser' = [parser EXCEPT
            !.variables = Put(parser.variables, name,
                              RecursiveValue(parser.variables, parse_expr(value))),
            !.recursive_vars = Put(parser.recursive_vars, name, TRUE),
            !.defs = Put(parser.defs, name, [simple |-> FALSE, rhs |-> value, value |-> ""]),
            !.lines = parser.lines + 1]
    /\ UNCHANGED <<engine, dfile, io>>

\* a use of a variable after the lines read so far: ctx.eval(ctx.variables[k])
\* (gnu_make_test.py, line 111)
Use ==
    /\ parser.stage = "lines"
    /\ \E k \in DOMAIN parser.variables :
        parser' = [parser EXCEPT !.stage = "used",
                       !.use = [name |-> k, value |-> eval(parser.variables, parser.variables[k], MaxDepth)]]
    /\ UNCHANGED <<engine, dfile, io>>

ParseNext == AssignSimple \/ AssignRecursive \/ Use

ParseSpec == ParseInit /\ [][ParseNext]_vars

UsedText == IF parser.use.value.fn = "str" THEN parser.use.value.s ELSE parser.use.value.fn
UsedDef == parser.defs[parser.use.name]

\* C22: whatever the assignments read, a use of a variable assigned with ':='
\* gives the text its right-hand side stood for when the assignment was read,
\* and a use of a variable assigned with '=' gives what its right-hand side
\* stands for with the definitions current at the use.
C22_Flavours == parser.stage = "used" => UsedText = (IF UsedDef.simple THEN UsedDef.value ELSE Expand(parser.defs, UsedDef.rhs, {parser.use.name}))

\* a ':=' variable used after a variable it refers to was assigned again, and
\* an '=' variable whose text is not the one it had when it was assigned
C22_Witness == parser.stage = "used" /\ UsedDef.simple /\ UsedDef.rhs = <<Ref("x"), Text(" b")>> /\ UsedText = "a b" /\ ExpandVar(parser.defs, "x", {}) = "x"
C22_WitnessRecursive == parser.stage = "used" /\ ~UsedDef.simple /\ UsedDef.rhs = <<Ref2("c")>> /\ UsedText = "a" /\ parser.lines = MaxLines

\* ------------------------------------------------------------ priorities on any acyclic graph
MaxLatency == 2

\* rules.py files with four rules, the i-th building DagNames[i]; edge[<<i, j>>]
\* (i < j) tells whether rule i has the target of rule j in deps, in
\* order_only_deps or not at all; the deps are written in the order of the
\* rules or (rev) the other way round
DagNames == <<"_out/g", "_out/a", "_out/b", "_out/x">>
DagPairs == {<<i, j>> : i \in 1..3, j \in 2..4} \cap {p \in (1..3) \X (2..4) : p[1] < p[2]}

Picked(edge, i, kind, rev) ==
    LET order == IF rev THEN <<4, 3, 2>> ELSE <<2, 3, 4>>
        mine == SelectSeq(order, LAMBDA j : i < j /\ edge[<<i, j>>] = kind)
    IN [k \in DOMAIN mine |-> DagNames[mine[k]]]

Dag(edge, lat, rev, goals) ==
    [rules |-> [i \in 1..4 |->
                    add_rule(<<DagNames[i]>>, Picked(edge, i, "deps", rev), <<"touch">>,
                             NoPath, Picked(edge, i, "order_only_deps", rev), FALSE,
                             NoPath, lat[i])],
     goals |-> goals,
     sources |-> {}]

DagGoals == {<<"_out/g">>, <<"_out/b", "_out/a">>}

LatencyInit ==
    /\ dfile = NoDFile
    /\ io = NoIo
    /\ parser = NoParser
    /\ \E edge \in [DagPairs -> {"none", "deps", "order_only_deps"}], rev \in BOOLEAN :
       \E lat \in [1..4 -> 1..MaxLatency], goals \in DagGoals :
           /\ lat[1] = 1
           /\ Started(Dag(edge, lat, rev, goals), TRUE, 1)
           /\ Quiet

\* main up to the start of the walk, lines 375-434
LatencySpec == LatencyInit /\ [][MainStart]_vars

Max(S) == CHOOSE x \in S : \A y \in S : y <= x

\* the largest sum of latencies over the paths of declared and order-only
\* edges from a goal's rule down to rule id, both ends counted; 0 without a path
RECURSIVE PathSum(_, _, _)
PathSum(objs, goals, id) ==
    LET parents == {p \in DOMAIN objs : Range(objs[id].targets) \cap StaticDeps(objs, p) # {}}
        above == {PathSum(objs, goals, p) : p \in parents} \ {0}
        from == above \cup (IF Range(objs[id].targets) \cap Range(goals) # {} THEN {0} ELSE {})
    IN IF from = {} THEN 0 ELSE Max(from) + objs[id].latency

\* C23: after propagate_latencies has run for every goal on an acyclic graph
\* with positive latencies, each rule reachable from a goal through declared
\* and order-only edges has as priority the largest sum of latencies over the
\* paths from a goal's rule down to it.
C23_LongestPath == (pc # "start" /\ status # 1) => \A id \in RuleIds : PathSum(rule_objs, args, id) > 0 => rule_objs[id].priority = PathSum(rule_objs, args, id)

\* x is reached first straight from the goal and later, on a longer path
\* whose last edge is order-only, through a
C23_Witness == /\ pc # "start" /\ args = <<"/p/_out/g">>
               /\ rule_objs[1].deps = <<"_out/x", "_out/a">>
               /\ rule_objs[2].order_only_deps = <<"/p/_out/x">>
               /\ rule_objs[2].latency = 2 /\ rule_objs[4].latency = 2
               /\ rule_objs[4].priority = 5 /\ rule_objs[3].priority = 0

\* ------------------------------------------------------------ the up-to-date decision
\* the innermost build() call is through with its dependency loop: the next
\* step of the walk is its decision
AtDecision == pc = "walk" /\ stack # <<>> /\ inline = NoRun /\ Top.k > Len(Chain(Top))

\* that step: the call returns, raises or starts run_cmd (and it is not Ctrl-C)
DecisionStep == AtDecision /\ (stack' # stack \/ inline' # inline) /\ raised' # "KeyboardInterrupt"

DecidedRule == rule_objs[rules[Top.target]]

\* the rule of the call has its prerequisites completed, its declared deps exist
Ready ==
    /\ \A d \in Range(Chain(Top)) : d \in completed
    /\ \A d \in Range(Top.deps) : mtime[d] >= 0

MinTargetTime == CHOOSE m \in {mtime[t] : t \in Range(DecidedRule.targets)} : \A t \in Range(DecidedRule.targets) : m <= mtime[t]

\* the four conditions of the claim, read from the disk and the database
Current ==
    /\ MinTargetTime >= 0
    /\ \A d \in Range(Top.deps) : mtime[d] <= MinTargetTime
    /\ \A d \in Range(Top.d_file_deps) : mtime[d] >= 0 /\ mtime[d] <= MinTargetTime
    /\ \A t \in Range(DecidedRule.targets) : t \in DOMAIN make_db /\ make_db[t] = signature(DecidedRule)

\* the step schedules the rule: on the queue (parallel) or into run_cmd (serial)
Schedules ==
    IF parallel
    THEN /\ Len(task_queue') = Len(task_queue) + 1
         /\ task_queue'[Len(task_queue')][3] = rules[Top.target]
         /\ Range(DecidedRule.targets) \subseteq enqueued'
    ELSE inline' # NoRun /\ inline'.rule = rules[Top.target]

\* the step treats the rule as up-to-date: the target is completed, nothing
\* is queued or run
Skips == Top.target \in completed' /\ task_queue' = task_queue /\ inline' = NoRun /\ ran' = ran

\* C24: a rule whose prerequisites are completed and whose declared deps exist
\* is treated as up-to-date exactly when the oldest target exists, no declared
\* dep is newer, every discovered dep exists and is not newer, and every
\* target's stored signature is the rule's; otherwise it is scheduled.
C24_UpToDateExactly == [][(DecisionStep /\ Ready) => IF Current THEN Skips /\ ~Schedules ELSE Schedules /\ completed' = completed]_vars

\* a rule with discovered deps was found up-to-date in the second invocation
\* while another rule, its cmds changed, was run again
C24_Witness ==
    /\ run = 2 /\ edit.kind = "cmds" /\ ran[edit.rule] > 0
    /\ \E r \in RuleIds : /\ ran[r] = 0
                          /\ d_file_deps_of(rule_objs[r]) # <<>>
                          /\ Range(rule_objs[r].targets) \subseteq completed

\* C25: when a build() call finds the rule of its target up-to-date, every
\* target of the rule is in completed when the call returns.
C25_AllTargetsCompleted == [][(DecisionStep /\ Ready /\ Current) => Range(DecidedRule.targets) \subseteq completed']_vars

\* ------------------------------------------------------------ run_cmd and the database
\* the rules in run_cmd whose commands have all exited with code 0
Finishing ==
    {w.rule : w \in {v \in BagToSet(threads) : v.pc = "run" /\ v.ci > Len(rule_objs[v.rule].cmds)}}
        \cup (IF inline # NoRun /\ inline.ci > Len(rule_objs[inline.rule].cmds) THEN {inline.rule} ELSE {})

\* the targets whose database entry the step writes
Written == {t \in DOMAIN make_db' : t \notin DOMAIN make_db \/ make_db[t] # make_db'[t]}

\* C26: while a rule is in run_cmd none of its targets has an entry in the
\* database of its cwd; an entry is written only when the last command of the
\* rule has exited with code 0, and then every target of the rule gets the
\* rule's current signature.
C26_EntryOnlyOnSuccess ==
    [][/\ \A r \in Running' : Range(rule_objs'[r].targets) \cap DOMAIN make_db' = {}
       /\ pc \notin {"start", "done"} =>
            \A t \in Written : \E r \in Finishing :
                /\ t \in Range(rule_objs[r].targets)
                /\ \A u \in Range(rule_objs[r].targets) : make_db'[u] = signature(rule_objs[r])]_vars

\* in the second invocation a rule is past its first command, its targets had
\* entries in make.db; and a rule with two targets has been committed
C26_Witness ==
    /\ run = 2
    /\ \E r \in Running \ Starting : Range(rule_objs[r].targets) \subseteq DOMAIN db_file
    /\ \E q \in RuleIds : /\ ran[q] = 1 /\ Len(rule_objs[q].targets) = 2
                          /\ Range(rule_objs[q].targets) \subseteq DOMAIN make_db

\* ------------------------------------------------------------ the commands of a rule
Last(q) == q[Len(q)]

\* the log of a rule is a beginning of its cmds, in order, and only the last
\* command spawned may have a nonzero code
InOrder(r) ==
    /\ Len(log[r]) <= Len(rule_objs[r].cmds)
    /\ \A i \in DOMAIN log[r] :
          /\ log[r][i].ci = i /\ log[r][i].cmd = rule_objs[r].cmds[i]
          /\ i < Len(log[r]) => log[r][i].code = 0

\* the last command spawned for the rule exited nonzero or could not be spawned
Broke(r) == log[r] # <<>> /\ Last(log[r]).code # 0

\* C27: the commands of a rule are spawned one after another in list order,
\* each only after the one before exited with code 0; after a command exits
\* nonzero or fails to spawn, no later command of the rule is spawned,
\* any_errors is set and the rule's targets are deleted.
C27_CommandsInOrder ==
    \A r \in RuleIds :
        /\ InOrder(r)
        /\ Broke(r) => /\ any_errors
                       /\ \A t \in Range(rule_objs[r].targets) : mtime[t] = -1

\* the same for the rules that are not include-scan rules without a d_file or
\* with more than one target
ScanCrashes(r) == rule_objs[r].msvc_show_includes /\ (rule_objs[r].d_file = NoPath \/ Len(rule_objs[r].targets) # 1)
C27_UnlessScanCrashes ==
    \A r \in RuleIds :
        /\ InOrder(r)
        /\ (Broke(r) /\ ~ScanCrashes(r)) => /\ any_errors
                                            /\ \A t \in Range(rule_objs[r].targets) : mtime[t] = -1

\* ------------------------------------------------------------ source files
\* the declared and the order-only prerequisites of the rule being decided
\* that no rule builds
SourcePrereqs(kinds) ==
    ((IF "deps" \in kinds THEN Range(Top.deps) ELSE {})
        \cup (IF "order_only_deps" \in kinds THEN Range(DecidedRule.order_only_deps) ELSE {}))
    \ DOMAIN rules

\* C28: every prerequisite of a rule, declared or order-only, that no rule
\* builds exists on disk when the rule is put on the queue or run inline.
C28_SourcesExist == [][(DecisionStep /\ Schedules) => \A p \in SourcePrereqs({"deps", "order_only_deps"}) : mtime[p] >= 0]_vars

\* the same for the declared prerequisites alone
C28_DeclaredSourcesExist == [][(DecisionStep /\ Schedules) => \A p \in SourcePrereqs({"deps"}) : mtime[p] >= 0]_vars

\* ------------------------------------------------------------ the driver loop under fair scheduling
\* the steps of the main thread (the controller) ...
MainSteps ==
    \/ Pass
    \/ WalkGoal
    \/ WalkDep
    \/ WalkDecide
    \/ InlineCmd
    \/ InlineFinish
    \/ WalkEnd
    \/ Finally
    \/ WriteDb

\* ... and of the builder threads (the workers)
BuilderSteps ==
    \/ \E w \in BagToSet(threads) : ThreadCheck(w)
    \/ \E w \in BagToSet(threads) : ThreadGet(w)
    \/ \E w \in BagToSet(threads) : ThreadCmd(w)
    \/ \E w \in BagToSet(threads) : ThreadFinish(w)

\* One invocation in which neither the main thread nor the builder threads
\* are held up for ever: the interpreter switches threads at regular
\* intervals, sleep(0.1) and the blocking get() give the processor away, and
\* every command terminates.
FairSpec == Init /\ [][OneRun]_vars /\ WF_vars(MainSteps) /\ WF_vars(BuilderSteps)

\* main has left the loop of lines 436-463
LoopExited == pc \in {"finally", "join", "done"}

\* C29: for an acyclic rule graph, at least one worker and commands that all
\* terminate, the parallel driver loop exits in the end, under fair
\* scheduling of controller and workers: it does not go on polling for ever.
C29_DriverLoopExits == (parallel /\ pc = "pass" /\ ~HasCycle) ~> LoopExited

\* the same when no rule is an include-scan rule without a d_file or with
\* more than one target
C29_UnlessScanCrashes == (parallel /\ pc = "pass" /\ ~HasCycle /\ \A r \in RuleIds : ~ScanCrashes(r)) ~> LoopExited

\* ------------------------------------------------------------ visited
\* a walk pass over the goals begins: build() is about to be called with the
\* first goal
PassBegins == pc = "walk" /\ gi = 1 /\ stack = <<>> /\ inline = NoRun

\* C30: visited is empty when a walk pass over the goals begins, in serial
\* mode as well as in parallel mode, so that the first visit of a source file
\* in a pass adds it to completed.
C30_VisitedEmptyAtPass == PassBegins => visited = {}

\* what follows from it: a build that ended with exit status 0 has every
\* source file that a rule of the goals needs in completed
C30_SourcesCompleted == (Done /\ status = 0 /\ ~HasCycle) => \A t \in GoalClosure \ DOMAIN rules : t \in completed

\* the same in parallel mode, where line 439 clears visited
C30_ParallelPass == (parallel /\ PassBegins) => visited = {}

\* ------------------------------------------------------------ what the threads share
\* the builder threads have been started (lines 425-432) and main has not
\* ended
ThreadsStarted == parallel /\ pc \in {"pass", "walk", "finally", "join"}

\* C31: after the builder threads have been started neither the rule
\* registry nor normpath_cache is written by any thread.
C31_ReadOnlyAfterStart == [][ThreadsStarted => (rules' = rules /\ normpath_cache' = normpath_cache)]_vars

\* the same for the rule registry alone
C31_RegistryReadOnly == [][ThreadsStarted => rules' = rules]_vars

\* ------------------------------------------------------------ a builder thread's steps
\* a step of builder thread w: lines 304-310 with the run_cmd call
WorkerStep(w) == ThreadGet(w) \/ ThreadCmd(w) \/ ThreadFinish(w)

\* the targets of the task w handles: of the entry it pops, or of the rule
\* it runs
OwnTargets(w) ==
    LET id == IF w.pc = "get" THEN task_queue[MinIndex(task_queue)][3] ELSE w.rule
    IN IF id = None THEN {} ELSE Range(rule_objs[id].targets)

\* the d_file of that task
OwnDFile(w) ==
    LET id == IF w.pc = "get" THEN task_queue[MinIndex(task_queue)][3] ELSE w.rule
    IN IF id = None THEN {} ELSE {rule_objs[id].d_file} \ {NoPath}

\* functions f and g agree outside S
SameOutside(f, g, S) ==
    /\ DOMAIN f \ S = DOMAIN g \ S
    /\ \A x \in DOMAIN f \ S : f[x] = g[x]

\* the queue is as it was, or lost the one entry the thread popped
OwnEntryOnly ==
    \/ task_queue' = task_queue
    \/ task_queue # <<>> /\ task_queue' = RemoveAt(task_queue, MinIndex(task_queue))

\* what the claim says a builder thread leaves alone
Leaves ==
    /\ visited' = visited
    /\ enqueued' = enqueued
    /\ priority_queue_counter' = priority_queue_counter
    /\ \A i \in DOMAIN rule_objs : rule_objs'[i].priority = rule_objs[i].priority
    /\ OwnEntryOnly

\* C32: a builder thread's handling of a task changes only building,
\* completed, any_errors, the database entries and the files of the rule's
\* targets, and removes its own queue entry; visited, enqueued, the enqueue
\* counter, the priorities and the other queue entries stay, and so does
\* every other part of the program's state and of the tree.
C32_WorkerFrame ==
    [][\A w \in BagToSet(threads) :
           WorkerStep(w) =>
               /\ Leaves
               /\ rule_objs' = rule_objs
               /\ normpath_cache' = normpath_cache
               /\ db_file' = db_file
               /\ sidecar' = sidecar
               /\ SameOutside(make_db, make_db', OwnTargets(w))
               /\ SameOutside(mtime, mtime', OwnTargets(w))]_vars

\* the half about what is left alone
C32_WorkerLeaves == [][\A w \in BagToSet(threads) : WorkerStep(w) => Leaves]_vars

\* the frame without normpath_cache and the d_file
C32_UnlessScan ==
    [][\A w \in BagToSet(threads) :
           WorkerStep(w) =>
               /\ Leaves
               /\ rule_objs' = rule_objs
               /\ db_file' = db_file
               /\ SameOutside(make_db, make_db', OwnTargets(w))
               /\ SameOutside(mtime, mtime', OwnTargets(w) \cup OwnDFile(w))]_vars

\* ------------------------------------------------------------ enqueued
\* the rules handed to the task queue and not finished: on the queue, or
\* being run by a builder thread
InHand == Queued \cup {w.rule : w \in {v \in BagToSet(threads) : v.pc = "run"}}

\* C33: a target is in enqueued exactly while its rule has been handed to
\* the task queue and has not finished; the targets of a finished rule, which
\* are in completed, are not in enqueued.
C33_EnqueuedWhileInHand ==
    /\ enqueued = UNION {Range(rule_objs[r].targets) : r \in InHand}
    /\ enqueued \cap completed = {}

\* its last part alone: no completed target is in enqueued
C33_FinishedNotEnqueued == enqueued \cap completed = {}

\* the half that holds: the targets of a rule on the queue or in a builder
\* thread are in enqueued
C33_InHandEnqueued == \A r \in InHand : Range(rule_objs[r].targets) \subseteq enqueued

\* ------------------------------------------------------------ the 'Built' banner
\* One invocation with any of -v and an interactive console.
BannerInit ==
    \E L \in Loaders, par \in BOOLEAN, j \in 1..MaxJobs :
        /\ par \/ j = 1
        /\ Started(L, par, j)
        /\ verbose \in BOOLEAN
        /\ console \in BOOLEAN
        /\ dfile = NoDFile
        /\ io = NoIo
        /\ parser = NoParser

BannerSpec == BannerInit /\ [][OneRun]_vars

\* the step ends run_cmd for rule r: its last command succeeded and the
\* database entry is written, or a command failed
EndsRunCmd(r) ==
    \/ inline # NoRun /\ inline.rule = r /\ InlineFinish
    \/ \E w \in BagToSet(threads) : w.pc = "run" /\ w.rule = r /\ ThreadFinish(w)
    \/ r \notin failed /\ r \in failed'

OneBanner(r) ==
    /\ Len(banners'[r]) = Len(banners[r]) + 1
    /\ SubSeq(banners'[r], 1, Len(banners[r])) = banners[r]

\* C34: each rule run_cmd executes, whether it succeeds or fails, gets
\* exactly one 'Built ...' write on stdout, also a rule that succeeds with no
\* output while the progress line is active.
C34_OneBanner == [][\A r \in RuleIds : EndsRunCmd(r) => OneBanner(r)]_vars

\* the same without the progress line
C34_UnlessProgressLine == [][\A r \in RuleIds : (EndsRunCmd(r) /\ ~progress_line) => OneBanner(r)]_vars

\* never more than one write for a rule, and only when its run_cmd ends
C34_AtMostOne ==
    [][\A r \in RuleIds :
           /\ banners'[r] # banners[r] => (EndsRunCmd(r) /\ OneBanner(r))
           /\ Len(banners'[r]) <= 1]_vars

\* ------------------------------------------------------------ io_lock
\* The threads of a parallel invocation and io_lock (line 65): thread 0 is
\* the main thread in its walk loop, threads 1..jobs are the builders.
\* io.at is where each thread is, io.holder the threads in a `with io_lock:`
\* block (none or one), io.left the commands the rule of a builder has left, io.scan
\* whether that rule has msvc_show_includes.

\* the operations, by the place a thread is at when it is inside one
OpAt(at) ==
    IF at = "spawn" THEN "spawn"
    ELSE IF at = "dwrite" THEN "d_file write"
    ELSE IF at = "dread" THEN "d_file read"
    ELSE IF at \in {"write", "fail_write", "end_write"} THEN "stdout write"
    ELSE IF at = "read" THEN "read output"
    ELSE IF at = "wait" THEN "wait"
    ELSE "none"

\* A mutant of Held: build() reads the d_file without the lock.
HeldButDFileRead(op) == op \in {"spawn", "d_file write", "stdout write"}

\* the operations the code does in a `with io_lock:` block: lines 69-71,
\* 121-127, 143-149, 246-248
Held(op) == op \in {"spawn", "d_file write", "d_file read", "stdout write"}

MaxCmds == 2

LockInit ==
    /\ \E j \in 1..MaxJobs : Started(Hello(TRUE), TRUE, j)
    /\ Quiet
    /\ dfile = NoDFile
    /\ parser = NoParser
    /\ io = [stage |-> "run", holder |-> {},
             at |-> [a \in 0..jobs |-> IF a = 0 THEN "walk" ELSE "get"],
             left |-> [a \in 0..jobs |-> 0],
             scan |-> [a \in 0..jobs |-> FALSE]]

\* thread a goes from `from` into `to`: `with io_lock:` blocks until the
\* lock is free when the operation at `to` is done under the lock
Enter(a, from, to) ==
    /\ io.stage = "run"
    /\ io.at[a] = from
    /\ Held(OpAt(to)) => io.holder = {}
    /\ io' = [io EXCEPT !.at[a] = to,
                        !.holder = IF Held(OpAt(to)) THEN {a} ELSE @]
    /\ UNCHANGED <<engine, dfile, parser>>

\* thread a leaves `from` for `to`: the end of the with block releases
Leave(a, from, to) ==
    /\ io.stage = "run"
    /\ io.at[a] = from
    /\ io' = [io EXCEPT !.at[a] = to,
                        !.holder = IF Held(OpAt(from)) THEN {} ELSE @]
    /\ UNCHANGED <<engine, dfile, parser>>

\* thread a goes on from `from` to `to`, outside every operation
Goes(a, from, to) ==
    /\ io.stage = "run"
    /\ io.at[a] = from
    /\ io' = [io EXCEPT !.at[a] = to]
    /\ UNCHANGED <<engine, dfile, parser>>

\* build(), lines 245-248: the d_file of a rule is read
MainReadsDFile == Enter(0, "walk", "dread") \/ Leave(0, "dread", "walk")

\* build(), lines 266-270, and main, line 460: a missing dependency is
\* reported, the progress line is written
MainWrites == Enter(0, "walk", "write") \/ Leave(0, "write", "walk")

\* main, lines 467-473: an error, the goals completed or Ctrl-C (in an
\* operation too: the with block releases) end the walk loop
MainEnds ==
    \E from \in {"walk", "dread", "write"} : Leave(0, from, "finally")

\* BuilderThread.run, lines 304-308: a rule is popped
Get(w) ==
    /\ io.stage = "run"
    /\ io.at[w] = "get"
    /\ \E n \in 1..MaxCmds, msvc \in BOOLEAN :
           io' = [io EXCEPT !.at[w] = "cmd", !.left[w] = n, !.scan[w] = msvc]
    /\ UNCHANGED <<engine, dfile, parser>>

\* BuilderThread.run, lines 304-306, after main put the sentinels
GetSentinel(w) == io.at[0] = "finally" /\ Goes(w, "get", "exit")

\* run_cmd, lines 121-127: Popen under the lock; it returns a process, or
\* raises and the exception is caught in the with block
Spawn(w) ==
    \/ Enter(w, "cmd", "spawn")
    \/ Leave(w, "spawn", "read")
    \/ Leave(w, "spawn", "scan")

\* run_cmd, lines 128-130: the output is read to its end, then the child is
\* waited for
ReadAndWait(w) == Goes(w, "read", "wait") \/ Goes(w, "wait", "scan")

\* run_cmd, lines 131-149: a rule with msvc_show_includes writes its d_file
\* under the lock; open() or the assert may raise, which ends the thread
IncludeScan(w) ==
    \/ io.scan[w] /\ Enter(w, "scan", "dwrite")
    \/ ~io.scan[w] /\ Goes(w, "scan", "code")
    \/ Leave(w, "dwrite", "code")
    \/ Leave(w, "dwrite", "exit")

\* run_cmd, lines 170-175: a nonzero code is reported and ends the thread
Fails(w) == Enter(w, "code", "fail_write") \/ Leave(w, "fail_write", "exit")

\* run_cmd, lines 117 and 177-182: the next cmd; after the last the banner
\* is written, or nothing with the progress line on and no output
Succeeds(w) ==
    \/ /\ io.left[w] > 1
       /\ io.stage = "run" /\ io.at[w] = "code"
       /\ io' = [io EXCEPT !.at[w] = "cmd", !.left[w] = @ - 1]
       /\ UNCHANGED <<engine, dfile, parser>>
    \/ io.left[w] = 1 /\ Enter(w, "code", "end_write")
    \/ io.left[w] = 1 /\ Goes(w, "code", "get")
    \/ Leave(w, "end_write", "get")

LockNext ==
    \/ MainReadsDFile
    \/ MainWrites
    \/ MainEnds
    \/ \E w \in 1..jobs : Get(w)
    \/ \E w \in 1..jobs : GetSentinel(w)
    \/ \E w \in 1..jobs : Spawn(w)
    \/ \E w \in 1..jobs : ReadAndWait(w)
    \/ \E w \in 1..jobs : IncludeScan(w)
    \/ \E w \in 1..jobs : Fails(w)
    \/ \E w \in 1..jobs : Succeeds(w)

LockSpec == LockInit /\ [][LockNext]_vars

\* the threads inside one of the four operations
Inside == {a \in DOMAIN io.at : OpAt(io.at[a]) \in {"stdout write", "spawn", "d_file write", "d_file read"}}

\* the threads whose next step takes the lock
AboutToLock == {a \in DOMAIN io.at : io.at[a] \in {"cmd", "code"} \/ (io.at[a] = "scan" /\ io.scan[a])}

\* C35: no two threads are at the same time inside a stdout write, a
\* subprocess spawn, a d_file write or a d_file read; io_lock is not held
\* by a thread that reads a child's output or waits for the child, is not
\* taken again by its holder, and is held only by a thread inside one of
\* the four operations, which ends by releasing it.
C35_Serialized ==
    io.stage = "run" =>
        /\ Cardinality(Inside) <= 1
        /\ \A a \in DOMAIN io.at :
               OpAt(io.at[a]) \in {"read output", "wait"} => a \notin io.holder
        /\ \A a \in AboutToLock : a \notin io.holder
        /\ io.holder \subseteq Inside

\* two builders read or wait for their commands while the main thread reads
\* a d_file under the lock
C35_Witness ==
    /\ io.stage = "run"
    /\ io.holder = {0} /\ io.at[0] = "dread"
    /\ \E v, w \in DOMAIN io.at :
           v # w /\ OpAt(io.at[v]) = "read output" /\ OpAt(io.at[w]) = "wait"

\* ------------------------------------------------------------ completed and the database
\* C36: during a build every target in completed that a rule produces has
\* a database entry equal to the current signature of its rule, and the
\* make.db written at shutdown records it so.
C36_CompletedRecorded ==
    /\ pc \in {"pass", "walk", "finally", "join"} =>
           \A t \in completed \cap DOMAIN rules :
               t \in DOMAIN make_db /\ make_db[t] = signature(rule_objs[rules[t]])
    /\ Done =>
           \A t \in completed \cap DOMAIN rules :
               t \in DOMAIN db_file /\ db_file[t] = signature(rule_objs[rules[t]])

\* a build in which a rule with two targets ran and completed, and which
\* ended with both recorded in make.db
C36_Witness ==
    /\ Done
    /\ \E r \in RuleIds :
           /\ ran[r] > 0
           /\ Len(rule_objs[r].targets) > 1
           /\ Range(rule_objs[r].targets) \subseteq completed \cap DOMAIN db_file

\* a target that is completed while up to date, with the entry of the
\* previous build
C36_WitnessUpToDate ==
    /\ pc \in {"pass", "walk"}
    /\ \E t \in completed \cap DOMAIN rules : ran[rules[t]] = 0 /\ t \in DOMAIN make_db

\* ------------------------------------------------------------ after a failure
\* the paths that depend on a path of S through declared, discovered or
\* order-only prerequisites
RECURSIVE AllDependents(_)
AllDependents(S) ==
    LET more == S \cup UNION {Range(rule_objs[r].targets) :
                     r \in {q \in RuleIds : Prereqs(rule_objs[q]) \cap S # {}}}
    IN IF more = S THEN S ELSE AllDependents(more)

\* the rules that depend on a target of rule r, r itself left out
DependOn(r) ==
    {q \in RuleIds \ {r} : Range(rule_objs[q].targets) \cap AllDependents(Range(rule_objs[r].targets)) # {}}

\* C37: when a command of a rule has failed, no rule that depends on one of
\* its targets, directly or transitively through declared, discovered or
\* order-only prerequisites, is executed in that build.
C37_DependentsNotRun == \A r \in failed : \A q \in DependOn(r) : ran[q] = 0

\* a rule failed in a build whose goal depends on it, and the build has
\* ended
C37_Witness ==
    /\ Done
    /\ \E r \in failed : \E q \in DependOn(r) :
           Range(rule_objs[q].targets) \cap GoalClosure # {}

\* ------------------------------------------------------------ the end of a task
\* the rules the builder threads are handling
InThread == {w.rule : w \in {v \in BagToSet(threads) : v.pc = "run"}}

\* rule r has come to one of its two ends
Ended(r) ==
    \/ any_errors'
    \/ /\ Range(rule_objs[r].targets) \subseteq completed'
       /\ Range(rule_objs[r].targets) \cap building' = {}

\* C38: a builder thread stops handling a rule it popped only when all the
\* rule's targets are in completed and out of building, or any_errors is
\* set; so every popped rule comes to one of the two ends.
C38_NeverDropsRule ==
    [][pc # "done" => \A r \in InThread : r \notin InThread' => Ended(r)]_vars

\* the same for the rules whose include scan does not crash
C38_UnlessScanCrashes ==
    [][pc # "done" => \A r \in InThread : (r \notin InThread' /\ ~ScanCrashes(r)) => Ended(r)]_vars

\* ------------------------------------------------------------ priorities on the queue
\* C39: every rule on the task queue, also one that is reached only through
\* a d_file prerequisite of another rule, was put there with a priority that
\* is at least its own latency, which is positive.
C39_QueuedHasPriority ==
    \A i \in RuleEntries :
        /\ rule_objs[task_queue[i][3]].latency > 0
        /\ 0 - task_queue[i][1] >= rule_objs[task_queue[i][3]].latency

\* the targets the goals reach through declared and order-only prerequisites,
\* as propagate_latencies walks them
DeclaredReach == Reach(rule_objs, Range(args))

\* the same for the rules that the goals reach without a d_file
C39_UnlessDiscoveredOnly ==
    \A i \in RuleEntries :
        Range(rule_objs[task_queue[i][3]].targets) \cap DeclaredReach # {} =>
            /\ rule_objs[task_queue[i][3]].latency > 0
            /\ 0 - task_queue[i][1] >= rule_objs[task_queue[i][3]].latency

====
